---------------------------- MODULE Spec2Model ----------------------------
(***************************************************************************)
(* Model of the heavy-metal-compass pipeline: the record validator of      *)
(* DataUpload.tsx (validateData), the index calculator of                  *)
(* CalculationEngine.tsx (calculateHPI, calculatePLI, calculateCF), the    *)
(* aggregates of ResultsVisualization.tsx and the Dashboard of             *)
(* GeospatialMap.tsx.                                                      *)
(*                                                                         *)
(* Numbers.  A JavaScript number is an IEEE-754 double, modelled as        *)
(*     [k |-> "fin", s |-> sign, m |-> mantissa, q |-> exponent]           *)
(*                      the value sign * mantissa * 2^exponent             *)
(*     [k |-> "inf", s |-> sign, ...]   +Infinity, -Infinity               *)
(*     [k |-> "nan", ...]               NaN                                *)
(* where the mantissa is a natural number of 53 binary digits (fewer for a *)
(* subnormal, none for 0 and -0), written as the sequence of its digits in *)
(* base 2^14.  The arithmetic rounds every result to the nearest double,   *)
(* to the one of even mantissa on a tie, as the operators of JavaScript    *)
(* do; a decimal literal is read as the double nearest to it.  Math.pow is *)
(* computed by the steps of the routine of the engine, whose result is not *)
(* always the double nearest to the power.                                 *)
(*                                                                         *)
(* Strings.  A raw cell of a parsed CSV row is a sequence of one-character *)
(* strings; a character that cannot be written in a string here is         *)
(* written as its code point ("U+000B").  A row is a function from the     *)
(* column names it holds to cells.                                         *)
(***************************************************************************)
EXTENDS Integers, Sequences, FiniteSets, TLC

-----------------------------------------------------------------------------
(* Numbers *)

Abs(x) == IF x < 0 THEN -x ELSE x

Sgn(x) == IF x < 0 THEN -1 ELSE IF x > 0 THEN 1 ELSE 0

-----------------------------------------------------------------------------
(* Natural numbers of any size *)

\* A natural number is the sequence of its digits in base 2^14, the lowest
\* first, with no zero as its highest digit; 0 is the empty sequence.
LimbBits == 14

Base == 16384

RECURSIVE Pow2(_)
Pow2(j) == IF j = 0 THEN 1 ELSE 2 * Pow2(j - 1)

\* The sequence of the values of f, a function on 1..n.
AsSeq(f) == f \o <<>>

\* a without the zeros it has as highest digits.
Trim(a) ==
    IF a = <<>> \/ a[Len(a)] # 0 THEN a
    ELSE IF \A i \in 1..Len(a) : a[i] = 0 THEN <<>>
    ELSE SubSeq(a, 1, CHOOSE i \in 1..Len(a) :
                          a[i] # 0 /\ \A j \in (i + 1)..Len(a) : a[j] = 0)

\* a * Base^j
ShiftLimbs(a, j) == IF a = <<>> THEN <<>> ELSE [i \in 1..j |-> 0] \o a

Limb(a, i) == IF 1 <= i /\ i <= Len(a) THEN a[i] ELSE 0

\* Whether the sum of the columns below position i overflows into it, for
\* columns from 0 to 2 * Base - 2: the column below overflows, or it is full
\* and a column further down overflows with every column between full.
CarryInto(cols, i) ==
    IF i = 1 \/ cols[i - 1] < Base - 1 THEN 0
    ELSE IF cols[i - 1] >= Base THEN 1
    ELSE IF \E j \in 1..(i - 2) :
                /\ cols[j] >= Base
                /\ \A k \in (j + 1)..(i - 2) : cols[k] = Base - 1
         THEN 1
    ELSE 0

\* The natural number sum of cols[i] * Base^(i-1), for cols[i] from 0 to
\* 2 * Base - 2.
CarryUp(cols) ==
    IF cols = <<>> THEN <<>>
    ELSE Trim(AsSeq([i \in 1..(Len(cols) + 1) |->
                        (Limb(cols, i) + CarryInto(cols, i)) % Base]))

\* The natural number sum of cols[i] * Base^(i-1), for cols[i] from 0 to
\* Base^2 - 1: the high part of a column is added to the next column.
Carry(cols) ==
    IF cols = <<>> THEN <<>>
    ELSE CarryUp(AsSeq([i \in 1..(Len(cols) + 1) |->
                           (Limb(cols, i) % Base)
                           + (Limb(cols, i - 1) \div Base)]))

\* A natural number of the size of an integer.
IntToBig(v) == Trim(<<v % Base, (v \div Base) % Base, v \div (Base * Base)>>)

\* The value of a natural number below 2^31.
RECURSIVE BigToInt(_)
BigToInt(a) == IF a = <<>> THEN 0 ELSE a[1] + Base * BigToInt(Tail(a))

BigAdd(a, b) ==
    IF a = <<>> THEN b
    ELSE IF b = <<>> THEN a
    ELSE CarryUp(AsSeq([i \in 1..(IF Len(a) > Len(b) THEN Len(a)
                                  ELSE Len(b)) |->
                           Limb(a, i) + Limb(b, i)]))

\* Whether position i of a - b lends a unit to the positions below it: the
\* position below is short, or it is even and a position further down is
\* short with every position between even.
BorrowFrom(a, b, i) ==
    IF i = 1 \/ a[i - 1] > Limb(b, i - 1) THEN 0
    ELSE IF a[i - 1] < Limb(b, i - 1) THEN 1
    ELSE IF \E j \in 1..(i - 2) :
                /\ a[j] < Limb(b, j)
                /\ \A k \in (j + 1)..(i - 2) : a[k] = Limb(b, k)
         THEN 1
    ELSE 0

\* a - b, for a >= b.
BigSub(a, b) ==
    IF b = <<>> THEN a
    ELSE IF a = b THEN <<>>
    ELSE Trim(AsSeq([i \in 1..Len(a) |->
                        (a[i] - Limb(b, i) - BorrowFrom(a, b, i)) % Base]))

\* -1, 0 or 1 as a < b, a = b or a > b.
BigCmp(a, b) ==
    IF Len(a) # Len(b) THEN (IF Len(a) < Len(b) THEN -1 ELSE 1)
    ELSE IF a = b THEN 0
    ELSE LET i == CHOOSE i \in 1..Len(a) :
                      a[i] # b[i] /\ \A j \in (i + 1)..Len(a) : a[j] = b[j]
         IN  IF a[i] < b[i] THEN -1 ELSE 1

\* a * v, for 0 <= v < Base.
MulSmall(a, v) ==
    IF a = <<>> \/ v = 0 THEN <<>>
    ELSE Carry(AsSeq([i \in 1..Len(a) |-> a[i] * v]))

\* The column of weight Base^(k-1) of a * b over the digits of a at the
\* positions from lo to hi: the low parts of the products of that weight and
\* the high parts of those of the weight below.
RECURSIVE Column(_, _, _, _, _)
Column(a, b, k, lo, hi) ==
    IF lo > hi THEN 0
    ELSE IF lo = hi
         THEN ((a[lo] * Limb(b, k + 1 - lo)) % Base)
              + ((a[lo] * Limb(b, k - lo)) \div Base)
    ELSE Column(a, b, k, lo, (lo + hi) \div 2)
         + Column(a, b, k, (lo + hi) \div 2 + 1, hi)

BigMul(a, b) ==
    IF a = <<>> \/ b = <<>> THEN <<>>
    ELSE Carry(AsSeq([k \in 1..(Len(a) + Len(b)) |->
                         Column(a, b, k,
                                IF k > Len(b) THEN k - Len(b) ELSE 1,
                                IF k < Len(a) THEN k ELSE Len(a))]))

RECURSIVE SmallBitLen(_)
SmallBitLen(v) == IF v = 0 THEN 0 ELSE 1 + SmallBitLen(v \div 2)

\* The number of binary digits of a.
BitLen(a) ==
    IF a = <<>> THEN 0
    ELSE LimbBits * (Len(a) - 1) + SmallBitLen(a[Len(a)])

\* a * 2^j
Shl(a, j) ==
    LET k == j % LimbBits
    IN  IF a = <<>> THEN <<>>
        ELSE ShiftLimbs(
                 Trim(AsSeq([i \in 1..(Len(a) + 1) |->
                                ((Limb(a, i) * Pow2(k)) % Base)
                                + (Limb(a, i - 1) \div Pow2(LimbBits - k))])),
                 j \div LimbBits)

\* floor(a / 2^j)
Shr(a, j) ==
    LET k == j % LimbBits
        w == j \div LimbBits
    IN  IF a = <<>> \/ w >= Len(a) THEN <<>>
        ELSE Trim(AsSeq([i \in 1..(Len(a) - w) |->
                            (a[i + w] \div Pow2(k))
                            + ((Limb(a, i + w + 1) % Pow2(k))
                               * Pow2(LimbBits - k))]))

\* The binary digit of a of weight 2^j.
Bit(a, j) == (Limb(a, j \div LimbBits + 1) \div Pow2(j % LimbBits)) % 2

\* Whether a has a binary digit 1 of weight below 2^j.
LowBits(a, j) ==
    \/ \E i \in 1..Len(a) : i <= j \div LimbBits /\ a[i] # 0
    \/ Limb(a, j \div LimbBits + 1) % Pow2(j % LimbBits) # 0

\* The digit of a quotient: the largest d <= guess with b * d <= cur.
RECURSIVE QuotientDigit(_, _, _)
QuotientDigit(cur, b, guess) ==
    IF BigCmp(MulSmall(b, guess), cur) > 0
    THEN QuotientDigit(cur, b, guess - 1)
    ELSE guess

\* A digit that is not below the digit of the quotient of cur by b: the two
\* highest digits of cur by the highest digit lead of b, for top the former.
GuessOf(top, lead) ==
    IF top \div lead >= Base THEN Base - 1 ELSE top \div lead

Guess(cur, b) ==
    GuessOf(Limb(cur, Len(b) + 1) * Base + Limb(cur, Len(b)), b[Len(b)])

\* Long division of a by b from the digit at position i down, for b with its
\* highest digit at least Base / 2 and rem < b: the quotient and the rest.
\* DivStep takes the rest with the next digit of a, DivDigit the digit of
\* the quotient as well.
RECURSIVE DivLoop(_, _, _, _, _)
DivDigit(a, b, i, cur, quot, digit) ==
    DivLoop(a, b, i - 1, BigSub(cur, MulSmall(b, digit)), <<digit>> \o quot)

DivStep(a, b, i, cur, quot) ==
    IF BigCmp(cur, b) < 0 THEN DivLoop(a, b, i - 1, cur, <<0>> \o quot)
    ELSE DivDigit(a, b, i, cur, quot, QuotientDigit(cur, b, Guess(cur, b)))

DivLoop(a, b, i, rem, quot) ==
    IF i = 0 THEN [q |-> Trim(quot), r |-> rem]
    ELSE DivStep(a, b, i, Trim(<<a[i]>> \o rem), quot)

\* The division of a by b, for b with its highest digit at least Base / 2:
\* the digits of a that b outnumbers are the first rest.
DivNormal(a, b) ==
    IF Len(a) < Len(b) THEN [q |-> <<>>, r |-> a]
    ELSE DivLoop(a, b, Len(a) - Len(b) + 1,
                 Trim(SubSeq(a, Len(a) - Len(b) + 2, Len(a))), <<>>)

\* The division of a * 2^j by b * 2^j.
DivShifted(a, b, j) == DivNormal(Shl(a, j), Shl(b, j))

\* floor(a / b) and a mod b (the latter times a power of 2), for b > 0.
BigDivMod(a, b) == DivShifted(a, b, LimbBits - SmallBitLen(b[Len(b)]))

\* a * 2^j for j >= 0, floor(a / 2^-j) for j < 0.
ShiftBy(a, j) == IF j >= 0 THEN Shl(a, j) ELSE Shr(a, -j)

\* The quotient a / b of natural numbers a, b > 0 to 56 binary digits or one
\* more: q = floor(a * 2^j / b), and whether a digit 1 was left out.
QuotientOf(a, j, dm) ==
    [q |-> dm.q, j |-> j, sticky |-> dm.r # <<>> \/ (j < 0 /\ LowBits(a, -j))]

QuotientAt(a, b, j) == QuotientOf(a, j, BigDivMod(ShiftBy(a, j), b))

Quotient(a, b) == QuotientAt(a, b, 56 + BitLen(b) - BitLen(a))

BigSquare(a) == IF a = <<>> THEN <<>> ELSE BigMul(a, a)

\* 10^j
RECURSIVE BigPow10(_)
BigPow10(j) ==
    IF j < 4 THEN IntToBig(CASE j = 0 -> 1 [] j = 1 -> 10 [] j = 2 -> 100
                             [] j = 3 -> 1000)
    ELSE IF j % 2 = 1 THEN MulSmall(BigPow10(j - 1), 10)
    ELSE BigSquare(BigPow10(j \div 2))

-----------------------------------------------------------------------------
(* Numbers: IEEE-754 doubles *)

\* A finite double is sign * mantissa * 2^exponent, with a mantissa of 53
\* binary digits and MinExp <= exponent <= MaxExp, or a mantissa of fewer
\* digits and exponent = MinExp (a subnormal; 0 has the mantissa 0).
MantBits == 53

MinExp == -1074

MaxExp == 971

NaN == [k |-> "nan", s |-> 1, m |-> <<>>, q |-> 0]

PosInfinity == [k |-> "inf", s |-> 1, m |-> <<>>, q |-> 0]

NegInfinity == [k |-> "inf", s |-> -1, m |-> <<>>, q |-> 0]

Infinity(sign) == IF sign > 0 THEN PosInfinity ELSE NegInfinity

Zero == [k |-> "fin", s |-> 1, m |-> <<>>, q |-> MinExp]

NegZero == [k |-> "fin", s |-> -1, m |-> <<>>, q |-> MinExp]

SignedZero(sign) == IF sign > 0 THEN Zero ELSE NegZero

\* The double of mantissa mant (of at most 53 binary digits, and 53 of them
\* unless exp = MinExp) and exponent exp >= MinExp.
Pack(sign, mant, exp) ==
    IF mant = <<>> THEN SignedZero(sign)
    ELSE IF exp > MaxExp THEN Infinity(sign)
    ELSE [k |-> "fin", s |-> sign, m |-> mant, q |-> exp]

\* The same for a mantissa of at most 54 binary digits, even when of 54.
Settle(sign, mant, exp) ==
    IF BitLen(mant) > MantBits THEN Pack(sign, Shr(mant, 1), exp + 1)
    ELSE Pack(sign, mant, exp)

\* The number of low binary digits that mant * 2^exp loses as a double.
Cut(len, exp) ==
    IF len - MantBits > MinExp - exp THEN len - MantBits ELSE MinExp - exp

\* Whether (mant + rest) / 2^cut is rounded upwards: it is above the half,
\* or at the half with an odd integer part.
RoundsUp(mant, cut, sticky) ==
    /\ Bit(mant, cut - 1) = 1
    /\ (sticky \/ LowBits(mant, cut - 1) \/ Bit(mant, cut) = 1)

\* mant without its cut low binary digits, rounded.
RoundedAt(mant, cut, sticky) ==
    IF cut <= 0 THEN Shl(mant, -cut)
    ELSE BigAdd(Shr(mant, cut),
                IF RoundsUp(mant, cut, sticky) THEN <<1>> ELSE <<>>)

RoundCut(sign, mant, exp, sticky, cut) ==
    Settle(sign, RoundedAt(mant, cut, sticky), exp + cut)

\* The double nearest to sign * (mant + rest) * 2^exp, the one of even
\* mantissa when two are as near, where 0 < rest < 1 when sticky and rest = 0
\* otherwise; when sticky, mant has 55 binary digits or more.
RoundToDouble(sign, mant, exp, sticky) ==
    IF mant = <<>> THEN SignedZero(sign)
    ELSE RoundCut(sign, mant, exp, sticky, Cut(BitLen(mant), exp))

\* The double nearest to sign * q * 2^(exp - j) for the quotient qt.
RoundQuotient(sign, exp, qt) ==
    RoundToDouble(sign, qt.q, exp - qt.j, qt.sticky)

\* The double nearest to sign * digits * 10^e / d for scale = 10^|e|.
DecimalScaled(sign, digits, d, e, scale) ==
    RoundQuotient(sign, 0,
                  Quotient(BigMul(digits, IF e >= 0 THEN scale ELSE <<1>>),
                           BigMul(IntToBig(d),
                                  IF e >= 0 THEN <<1>> ELSE scale)))

\* The double nearest to sign * digits * 10^e / d of len decimal digits or
\* one more: the numbers of more than 320 digits before the point are above
\* every double, those that begin more than 326 places after the point are
\* nearest to 0.
DecimalOf(sign, digits, d, e, len) ==
    IF digits = <<>> \/ len + e < -326 THEN SignedZero(sign)
    ELSE IF len + e > 320 THEN Infinity(sign)
    ELSE DecimalScaled(sign, digits, d, e, BigPow10(Abs(e)))

\* The double nearest to sign * digits * 10^e / d, for a natural number
\* digits and integers d > 0 and e.
Decimal(sign, digits, d, e) ==
    DecimalOf(sign, digits, d, e, (BitLen(digits) * 30103) \div 100000)

\* The double nearest to (n / d) * 10^e, for integers n, d > 0 and e.
Num(n, d, e) == Decimal(IF n < 0 THEN -1 ELSE 1, IntToBig(Abs(n)), d, e)

\* An integer as a number (every integer of the model is below 2^31, and a
\* double holds it exactly).
Int2Num(i) == RoundToDouble(IF i < 0 THEN -1 ELSE 1, IntToBig(Abs(i)), 0, FALSE)

IsNaN(x) == x.k = "nan"

IsZero(x) == x.k = "fin" /\ x.m = <<>>

\* -1, 0 or 1 as |x| < |y|, |x| = |y| or |x| > |y|, for finite x and y.
CmpAbs(x, y) ==
    IF x.m = <<>> \/ y.m = <<>>
    THEN (IF x.m = y.m THEN 0 ELSE IF x.m = <<>> THEN -1 ELSE 1)
    ELSE IF x.q # y.q THEN (IF x.q < y.q THEN -1 ELSE 1)
    ELSE BigCmp(x.m, y.m)

\* x * y of JavaScript.
Mul(x, y) ==
    IF IsNaN(x) \/ IsNaN(y) THEN NaN
    ELSE IF x.k = "inf" \/ y.k = "inf"
         THEN (IF IsZero(x) \/ IsZero(y) THEN NaN ELSE Infinity(x.s * y.s))
    ELSE RoundToDouble(x.s * y.s, BigMul(x.m, y.m), x.q + y.q, FALSE)

\* The quotient of two finite numbers that are not 0.
DivFinite(x, y) == RoundQuotient(x.s * y.s, x.q - y.q, Quotient(x.m, y.m))

\* x / y of JavaScript.
Div(x, y) ==
    IF IsNaN(x) \/ IsNaN(y) THEN NaN
    ELSE IF x.k = "inf"
         THEN (IF y.k = "inf" THEN NaN ELSE Infinity(x.s * y.s))
    ELSE IF y.k = "inf" THEN SignedZero(x.s * y.s)
    ELSE IF IsZero(y)
         THEN (IF IsZero(x) THEN NaN ELSE Infinity(x.s * y.s))
    ELSE IF IsZero(x) THEN SignedZero(x.s * y.s)
    ELSE DivFinite(x, y)

\* a + b when same, a - b otherwise (for a >= b).
Combine(a, b, same) == IF same THEN BigAdd(a, b) ELSE BigSub(a, b)

\* The sum of two finite numbers that are not 0 and not opposite, |x| >= |y|.
\* When far, y is more than 60 binary orders below x and only decides the
\* rounding: the sum is 8 * mantissa of x and a rest, or that less 1 and a
\* rest.
AddAligned(x, y, far) ==
    RoundToDouble(x.s,
                  Combine(Shl(x.m, IF far THEN 3 ELSE x.q - y.q),
                          IF ~far THEN y.m
                          ELSE IF x.s = y.s THEN <<>> ELSE <<1>>,
                          x.s = y.s),
                  IF far THEN x.q - 3 ELSE y.q, far)

\* The sum of two finite numbers that are not 0, for cmp the comparison of
\* their sizes.
AddFinite(x, y, cmp) ==
    IF cmp = 0 /\ x.s # y.s THEN Zero
    ELSE AddAligned(IF cmp < 0 THEN y ELSE x, IF cmp < 0 THEN x ELSE y,
                    Abs(x.q - y.q) > 60)

\* x + y of JavaScript.
Add(x, y) ==
    IF IsNaN(x) \/ IsNaN(y) THEN NaN
    ELSE IF x.k = "inf"
         THEN (IF y.k = "inf" /\ y.s # x.s THEN NaN ELSE x)
    ELSE IF y.k = "inf" THEN y
    ELSE IF IsZero(x) THEN (IF IsZero(y) /\ x.s # y.s THEN Zero ELSE y)
    ELSE IF IsZero(y) THEN x
    ELSE AddFinite(x, y, CmpAbs(x, y))

\* x < y of JavaScript (false when either is NaN; -0 is not below 0).
Lt(x, y) ==
    IF IsNaN(x) \/ IsNaN(y) THEN FALSE
    ELSE IF x.k = "inf" THEN x.s < 0 /\ y # x
    ELSE IF y.k = "inf" THEN y.s > 0
    ELSE IF IsZero(x) /\ IsZero(y) THEN FALSE
    ELSE IF x.s # y.s THEN x.s < y.s
    ELSE IF x.s > 0 THEN CmpAbs(x, y) < 0
    ELSE CmpAbs(x, y) > 0

\* x > y of JavaScript.
Gt(x, y) == Lt(y, x)

\* -x of JavaScript.
Neg(x) == IF IsNaN(x) THEN NaN ELSE [x EXCEPT !.s = -x.s]

\* x - y of JavaScript.
Sub(x, y) == Add(x, Neg(y))

\* x === y of JavaScript, for numbers.
Eq(x, y) == ~IsNaN(x) /\ ~IsNaN(y) /\ (x = y \/ (IsZero(x) /\ IsZero(y)))

-----------------------------------------------------------------------------
(* Math.pow *)

\* floor(sqrt(a)) for a natural number a > 0, by Newton's iteration from
\* r >= floor(sqrt(a)).
RECURSIVE SqrtFrom(_, _)
SqrtStep(a, r, next) == IF BigCmp(next, r) >= 0 THEN r ELSE SqrtFrom(a, next)

SqrtFrom(a, r) == SqrtStep(a, r, Shr(BigAdd(r, BigDivMod(a, r).q), 1))

BigSqrt(a) == SqrtFrom(a, Shl(<<1>>, (BitLen(a) + 1) \div 2))

\* The double nearest to the square root of a = x * 2^(2 * p), r being
\* floor(sqrt(a)), of 56 binary digits or more.
SqrtRounded(a, r, p) == RoundToDouble(1, r, -p, BigSquare(r) # a)

SqrtScaled(a, p) == SqrtRounded(a, BigSqrt(a), p)

\* sqrt(x) for a finite x > 0, which Math.pow(x, 0.5) returns: the double
\* nearest to the square root.
MathSqrt(x) ==
    SqrtScaled(Shl(x.m, 112 + (x.q % 2)), (112 + (x.q % 2) - x.q) \div 2)

\* 1 / c of JavaScript for an integer c >= 1.
Inverse(c) == Div(Int2Num(1), Int2Num(c))

\* The weight of the exponent in the high word of a double, 0x00100000.
HighOne == Pow2(20)

\* The high word of |x| for a finite x: the exponent field and the 20 high
\* binary digits of the fraction.
HighWord(x) == (x.q - MinExp) * HighOne + BigToInt(Shr(x.m, 32))

\* Whether the low word of x, the 32 low binary digits of its fraction, is 0.
LowWordZero(x) == ~LowBits(x.m, 32)

\* x with its low word set to 0.
ClearLow(x) == [x EXCEPT !.m = Shl(Shr(x.m, 32), 32)]

\* The double >= 0 of high word h and of low word lo1 * 2^16 + lo0.
FromWords(h, lo1, lo0) ==
    Pack(1,
         BigAdd(Shl(IntToBig((h % HighOne)
                             + (IF h < HighOne THEN 0 ELSE HighOne)), 32),
                BigAdd(Shl(IntToBig(lo1), 16), IntToBig(lo0))),
         IF h < HighOne THEN MinExp ELSE h \div HighOne - 1 + MinExp)

\* The constants of the routine behind Math.pow, by their words.
One == Int2Num(1)

Two == Int2Num(2)

Three == Int2Num(3)

\* bp[k], dp_h[k] and dp_l[k]: 1 and 1.5, and log2 of them in two parts.
bp(k) == IF k = 0 THEN One ELSE FromWords(1073217536, 0, 0)

dp_h(k) == IF k = 0 THEN Zero ELSE FromWords(1071822851, 16384, 0)

dp_l(k) == IF k = 0 THEN Zero ELSE FromWords(1045233131, 17359, 53254)

\* L1 .. L6, of the polynomial for the logarithm.
PowL ==
    <<FromWords(1071854387, 13107, 13059), FromWords(1071345078, 56175, 44031),
      FromWords(1070945621, 20879, 9805), FromWords(1070691424, 43293, 16641),
      FromWords(1070433866, 37833, 56165), FromWords(1070235176, 19013, 20207)>>

\* P1 .. P5, of the polynomial for the exponential.
PowP ==
    <<FromWords(1069897045, 21845, 21822),
      Neg(FromWords(1063698796, 5822, 48531)),
      FromWords(1058100842, 44837, 56876),
      Neg(FromWords(1052491073, 50642, 27633)),
      FromWords(1046886249, 29374, 42192)>>

\* ln(2), and ln(2) in two parts.
lg2 == FromWords(1072049730, 65274, 14831)

lg2_h == FromWords(1072049731, 0, 0)

lg2_l == Neg(FromWords(1042308193, 3240, 27705))

\* -(1024 - log2(ovfl + 0.5 ulp))
ovt == FromWords(1016534343, 25899, 33534)

\* 2 / (3 * ln(2)), and the same in two parts.
cp == FromWords(1072613129, 56378, 1021)

cp_h == FromWords(1072613129, 57344, 0)

cp_l == Neg(FromWords(1044262880, 5211, 501))

\* The last step of the routine: z = 1 - (r - z) with its exponent raised by
\* n.
PowScaled(n, z) == RoundToDouble(1, z.m, z.q + n, FALSE)

\* r = (z * t1) / ((t1 - two) - (w + z * w)), as the engine has the division.
PowExpRatio(n, z, w, t1) ==
    PowScaled(n,
              Sub(One,
                  Sub(Div(Mul(z, t1), Sub(Sub(t1, Two), Add(w, Mul(z, w)))),
                      z)))

\* t1 = z - t * (P1 + t * (P2 + t * (P3 + t * (P4 + t * P5)))) for t = z * z
PowExpSeries(n, z, w, t) ==
    PowExpRatio(n, z, w,
                Sub(z,
                    Mul(t, Add(PowP[1],
                    Mul(t, Add(PowP[2],
                    Mul(t, Add(PowP[3],
                    Mul(t, Add(PowP[4], Mul(t, PowP[5])))))))))))

\* w = v - (z - u)
PowExpSum(n, u, v, z) == PowExpSeries(n, z, Sub(v, Sub(z, u)), Mul(z, z))

\* z = u + v
PowExpParts(n, u, v) == PowExpSum(n, u, v, Add(u, v))

\* u = t * lg2_h and v = (p_l - (t - p_h)) * lg2 + t * lg2_l
PowExpHigh(p_h, p_l, n, t) ==
    PowExpParts(n, Mul(t, lg2_h),
                Add(Mul(Sub(p_l, Sub(t, p_h)), lg2), Mul(t, lg2_l)))

\* 2^(z + n) for z = p_h + p_l of size 0.5 at most: z * ln(2) in the parts u
\* and v from t, the sum with its low word cleared, then exp of it through
\* the polynomial.
PowExp(p_h, p_l, n) == PowExpHigh(p_h, p_l, n, ClearLow(Add(p_l, p_h)))

\* The same for p_h + p_l of any size below 1075: n is the integer nearest
\* to the sum and t is n as a double, taken off p_h.
PowReduced(p_h, p_l, t, n) == PowExp(Sub(p_h, t), p_l, n)

\* t, of the sign of the sum, from nn, the high word of |p_h + p_l| + 0.5,
\* of exponent k: nn without the binary digits below the unit.
PowInteger(sign, nn, k) ==
    [FromWords(nn - (nn % Pow2(20 - k)), 0, 0) EXCEPT !.s = sign]

\* n, from the same: the binary digits of nn from the unit up.
PowExponent(sign, nn, k) ==
    sign * (((nn % HighOne) + HighOne) \div Pow2(20 - k))

\* i is the high word of |p_h + p_l|; above 0x3fe00000, the sum is above 0.5
\* in size, and n = 0 otherwise.
PowReduce(p_h, p_l, sign, i) ==
    PowReduced(p_h, p_l,
               IF i > 1022 * HighOne
               THEN PowInteger(sign, i + Pow2(1042 - i \div HighOne),
                               (i + Pow2(1042 - i \div HighOne)) \div HighOne
                                   - 1023)
               ELSE Zero,
               IF i > 1022 * HighOne
               THEN PowExponent(sign, i + Pow2(1042 - i \div HighOne),
                                (i + Pow2(1042 - i \div HighOne)) \div HighOne
                                    - 1023)
               ELSE 0)

\* 2^(p_h + p_l) with z = p_h + p_l as a double: Infinity from z >= 1024 on
\* when the power is above every double, 0 from z <= -1075 on.
PowOfSum(p_h, p_l, z) ==
    IF /\ z.s > 0
       /\ HighWord(z) >= 1033 * HighOne
       /\ \/ HighWord(z) # 1033 * HighOne
          \/ ~LowWordZero(z)
          \/ Gt(Add(p_l, ovt), Sub(z, p_h))
    THEN PosInfinity
    ELSE IF /\ z.s < 0
            /\ HighWord(z) >= 1033 * HighOne + 52224
            /\ \/ HighWord(z) # 1033 * HighOne + 52224
               \/ ~LowWordZero(z)
               \/ ~Lt(Sub(z, p_h), p_l)
    THEN Zero
    ELSE PowReduce(p_h, p_l, z.s, HighWord(z))

PowSum(p_h, p_l) == PowOfSum(p_h, p_l, Add(p_l, p_h))

\* 2^(y * (t1 + t2)), with y cut in y1, of the high word of y, and the rest:
\* p_h = y1 * t1 and p_l = (y - y1) * t1 + y * t2.
PowProduct(y, y1, t1, t2) ==
    PowSum(Mul(y1, t1), Add(Mul(Sub(y, y1), t1), Mul(y, t2)))

\* t2 = z_l - (((t1 - t) - dp_h[k]) - z_h): log2(x) = t1 + t2.
PowLog2Parts(y, k, t, z_h, z_l, t1) ==
    PowProduct(y, ClearLow(y), t1,
               Sub(z_l, Sub(Sub(Sub(t1, t), dp_h(k)), z_h)))

\* t1 = (((z_h + z_l) + dp_h[k]) + t) with its low word cleared, t being the
\* exponent n as a double.
PowLog2(y, k, t, z_h, z_l) ==
    PowLog2Parts(y, k, t, z_h, z_l,
                 ClearLow(Add(Add(Add(z_h, z_l), dp_h(k)), t)))

\* z_h = cp_h * p_h and z_l = cp_l * p_h + p_l * cp + dp_l[k], for
\* p_l = v - (p_h - u).
PowLogHigh(y, k, n, u, v, p_h) ==
    PowLog2(y, k, Int2Num(n), Mul(cp_h, p_h),
            Add(Add(Mul(cp_l, p_h), Mul(Sub(v, Sub(p_h, u)), cp)), dp_l(k)))

\* p_h = u + v with its low word cleared.
PowLogParts(y, k, n, u, v) == PowLogHigh(y, k, n, u, v, ClearLow(Add(u, v)))

\* u = s_h * t_h and v = s_l * t_h + t_l * s, for the new t_h and
\* t_l = r - ((t_h - 3) - s2).
PowSeriesHigh(y, k, n, ss, s_h, s_l, s2, r, t_h) ==
    PowLogParts(y, k, n, Mul(s_h, t_h),
                Add(Mul(s_l, t_h), Mul(Sub(r, Sub(Sub(t_h, Three), s2)), ss)))

\* t_h = 3 + s2 + r with its low word cleared, for s2 = s_h * s_h.
PowSeriesSum(y, k, n, ss, s_h, s_l, s2, r) ==
    PowSeriesHigh(y, k, n, ss, s_h, s_l, s2, r,
                  ClearLow(Add(Add(Three, s2), r)))

\* L1 + s2 * (L2 + s2 * (L3 + s2 * (L4 + s2 * (L5 + s2 * L6))))
PowLogPoly(s2) ==
    Add(PowL[1],
    Mul(s2, Add(PowL[2],
    Mul(s2, Add(PowL[3],
    Mul(s2, Add(PowL[4],
    Mul(s2, Add(PowL[5], Mul(s2, PowL[6]))))))))))

\* r = s2 * s2 * (L1 + ...) + s_l * (s_h + s), for s2 = s * s.
PowSeries(y, k, n, ss, s_h, s2, s_l) ==
    PowSeriesSum(y, k, n, ss, s_h, s_l, Mul(s_h, s_h),
                 Add(Mul(Mul(s2, s2), PowLogPoly(s2)),
                     Mul(s_l, Add(s_h, ss))))

\* s_l = v * ((u - s_h * t_h) - s_h * t_l)
PowRatioLow(y, k, n, u, v, t_h, t_l, ss, s_h) ==
    PowSeries(y, k, n, ss, s_h, Mul(ss, ss),
              Mul(v, Sub(Sub(u, Mul(s_h, t_h)), Mul(s_h, t_l))))

\* s_h is s with its low word cleared.
PowRatioParts(y, k, n, u, v, t_h, t_l, ss) ==
    PowRatioLow(y, k, n, u, v, t_h, t_l, ss, ClearLow(ss))

\* s = u * v and t_l = ax - (t_h - bp[k])
PowRatio(y, ax, k, n, u, v, t_h) ==
    PowRatioParts(y, k, n, u, v, t_h, Sub(ax, Sub(t_h, bp(k))), Mul(u, v))

\* x^y for x = ax * 2^n with ax of high word ix, in the interval k: ax is
\* near 1 for k = 0 and near 1.5 for k = 1.  log2(ax) is computed from
\* s = (ax - bp[k]) / (ax + bp[k]) as u * v, with t_h = ax + bp[k] to the
\* high word.
PowLog(y, ax, ix, k, n) ==
    PowRatio(y, ax, k, n, Sub(ax, bp(k)), Div(One, Add(ax, bp(k))),
             FromWords((ix \div 2) + 512 * HighOne + Pow2(19) + k * Pow2(18),
                       0, 0))

\* The interval of ax, a normal double of exponent n and of j in the 20 high
\* binary digits of its fraction: up to 0x3988E, |ax| < sqrt(3/2) and k = 0;
\* below 0xBB67A, |ax| < sqrt(3) and k = 1; above, k = 0, ax is halved and n
\* is one more.  ax is taken with the exponent 0, or -1 when halved.
PowInterval(y, ax, n, j) ==
    PowLog(y,
           [ax EXCEPT !.q = IF j < 767610 THEN 1 - MantBits ELSE -MantBits],
           j + (IF j < 767610 THEN 1023 ELSE 1022) * HighOne,
           IF 235662 < j /\ j < 767610 THEN 1 ELSE 0,
           IF j < 767610 THEN n ELSE n + 1)

PowNormal(y, ax, n) ==
    PowInterval(y, ax, n + HighWord(ax) \div HighOne - 1023,
                HighWord(ax) % HighOne)

\* x^y for a finite x > 0 and a double 0 < y < 1, as the engine computes it:
\* the power is within an unit in the last place, and not always the double
\* nearest to it.  A subnormal x is taken times 2^53 first.
PowGeneral(x, y) ==
    PowNormal(y,
              IF HighWord(x) < HighOne
              THEN Mul(x, FromWords(1076 * HighOne, 0, 0)) ELSE x,
              IF HighWord(x) < HighOne THEN -53 ELSE 0)

\* x^y for a finite x > 0 and the double y = 1 / c, 2 <= c.
PowInverse(x, c) ==
    IF c = 2 THEN MathSqrt(x)
    ELSE IF x = One THEN One
    ELSE PowGeneral(x, Inverse(c))

-----------------------------------------------------------------------------
(* Math.round, toFixed *)

\* floor(|x|) for a finite x.
IntegerPart(x) == ShiftBy(x.m, x.q)

\* The integer of size floor(|x|), or one more when bump, and of the sign of
\* x.
IntegerNear(x, bump) ==
    RoundToDouble(x.s, BigAdd(IntegerPart(x), IF bump THEN <<1>> ELSE <<>>),
                  0, FALSE)

-----------------------------------------------------------------------------
(* parseFloat *)

Digits == {"0", "1", "2", "3", "4", "5", "6", "7", "8", "9"}

DigitVal(c) ==
    CASE c = "0" -> 0 [] c = "1" -> 1 [] c = "2" -> 2 [] c = "3" -> 3
      [] c = "4" -> 4 [] c = "5" -> 5 [] c = "6" -> 6 [] c = "7" -> 7
      [] c = "8" -> 8 [] c = "9" -> 9

\* The characters parseFloat skips at the head of a string: the white space
\* and the line terminators of the language.
WhiteSpace ==
    {"\t", "\n", "U+000B", "\f", "\r", " ", "U+00A0", "U+1680",
     "U+2000", "U+2001", "U+2002", "U+2003", "U+2004", "U+2005", "U+2006",
     "U+2007", "U+2008", "U+2009", "U+200A", "U+2028", "U+2029", "U+202F",
     "U+205F", "U+3000", "U+FEFF"}

\* The value of a cell a row does not hold.
Undefined == <<"undefined">>

Drop(s, j) == SubSeq(s, j + 1, Len(s))

\* The number of leading characters of s that are in set cs.
RECURSIVE Span(_, _)
Span(s, cs) ==
    IF s # <<>> /\ Head(s) \in cs THEN 1 + Span(Tail(s), cs) ELSE 0

\* The natural number a sequence of digits denotes.
RECURSIVE DigitsVal(_)
DigitsVal(s) ==
    IF s = <<>> THEN <<>>
    ELSE BigAdd(MulSmall(DigitsVal(SubSeq(s, 1, Len(s) - 1)), 10),
                IntToBig(DigitVal(s[Len(s)])))

\* The integer a sequence of digits denotes, or ExponentCap when it is more:
\* an exponent of that size decides the value whatever the digits before it.
ExponentCap == 100000

RECURSIVE ExponentVal(_)
ExponentVal(s) ==
    IF s = <<>> THEN 0
    ELSE LET v == 10 * ExponentVal(SubSeq(s, 1, Len(s) - 1))
                      + DigitVal(s[Len(s)])
         IN  IF v > ExponentCap THEN ExponentCap ELSE v

StartsWith(s, p) == Len(s) >= Len(p) /\ SubSeq(s, 1, Len(p)) = p

InfinityWord == <<"I", "n", "f", "i", "n", "i", "t", "y">>

\* The exponent part at the head of s, if a complete one is there:
\* [len |-> characters it takes, val |-> its value].
ExponentPart(s) ==
    IF s = <<>> \/ Head(s) \notin {"e", "E"} THEN [len |-> 0, val |-> 0]
    ELSE LET r  == Tail(s)
             sg == IF r # <<>> /\ Head(r) \in {"+", "-"} THEN 1 ELSE 0
             ds == Drop(r, sg)
             nd == Span(ds, Digits)
         IN  IF nd = 0 THEN [len |-> 0, val |-> 0]
             ELSE [len |-> 1 + sg + nd,
                   val |-> (IF sg = 1 /\ Head(r) = "-" THEN -1 ELSE 1)
                             * ExponentVal(SubSeq(ds, 1, nd))]

\* The unsigned decimal literal at the head of s, with sign sg: the double
\* nearest to it (-0 for a zero with the sign -).
UnsignedLiteral(s, sg) ==
    IF StartsWith(s, InfinityWord) THEN Infinity(sg)
    ELSE LET ni   == Span(s, Digits)
             r1   == Drop(s, ni)
             dot  == r1 # <<>> /\ Head(r1) = "."
             nf   == IF dot THEN Span(Tail(r1), Digits) ELSE 0
             r2   == IF dot THEN Drop(r1, 1 + nf) ELSE r1
             ex   == ExponentPart(r2)
             mant == DigitsVal(SubSeq(s, 1, ni)
                               \o (IF dot THEN SubSeq(r1, 2, 1 + nf) ELSE <<>>))
         IN  IF ni + nf = 0 THEN NaN
             ELSE Decimal(sg, mant, 1, ex.val - nf)

\* The number parseFloat reads from a cell: leading white space is skipped,
\* the longest prefix that is a decimal literal is read, NaN when there is
\* none.
StringToNumber(cell) ==
    LET s  == Drop(cell, Span(cell, WhiteSpace))
        sg == IF s # <<>> /\ Head(s) = "-" THEN -1 ELSE 1
        u  == IF s # <<>> /\ Head(s) \in {"+", "-"} THEN Tail(s) ELSE s
    IN  UnsignedLiteral(u, sg)

-----------------------------------------------------------------------------
(* DataUpload.tsx: the columns of a file *)

requiredColumns ==
    <<"latitude", "longitude", "sampleDate",
      "As", "Cd", "Cr", "Cu", "Fe", "Mn", "Ni", "Pb", "Zn">>

metals == <<"As", "Cd", "Cr", "Cu", "Fe", "Mn", "Ni", "Pb", "Zn">>

-----------------------------------------------------------------------------
(* The inputs of the validator *)

\* A batch holds at most MaxRows rows.
MaxRows == 3

\* The days of January 2024 on which validateData is called.
Days == {30, 31}

\* A row in which every field passes: the concentrations are double the WHO
\* standards.
RowValid ==
    [col \in {requiredColumns[j] : j \in 1..Len(requiredColumns)} |->
        CASE col = "latitude"   -> <<"4", "5", ".", "5">>
          [] col = "longitude"  -> <<"-", "1", "2", "0">>
          [] col = "sampleDate" -> <<"2", "0", "2", "4", "-", "0", "1", "-", "1", "5">>
          [] col = "As" -> <<"0", ".", "0", "2">>
          [] col = "Cd" -> <<"0", ".", "0", "0", "6">>
          [] col = "Cr" -> <<"0", ".", "1">>
          [] col = "Cu" -> <<"4", ".", "0">>
          [] col = "Fe" -> <<"0", ".", "6">>
          [] col = "Mn" -> <<"0", ".", "2">>
          [] col = "Ni" -> <<"0", ".", "1", "4">>
          [] col = "Pb" -> <<"0", ".", "0", "2">>
          [] col = "Zn" -> <<"6", ".", "0">>]

\* row without the key col (a line of the file with too few fields, or a
\* header without the column).
Without(row, col) == [c \in DOMAIN row \ {col} |-> row[c]]

RowNoDate == Without(RowValid, "sampleDate")

RowEmptyDate == [RowValid EXCEPT !["sampleDate"] = <<>>]

RowLat91 == [RowValid EXCEPT !["latitude"] = <<"9", "1">>]

RowEmptyPb == [RowValid EXCEPT !["Pb"] = <<>>]

RowNegativeNi == [RowValid EXCEPT !["Ni"] = <<"-", "0", ".", "5">>]

\* Four failing fields: latitude, longitude, Cd and Zn.
RowManyBad ==
    Without([RowValid EXCEPT !["latitude"] = <<"a", "b", "c">>,
                             !["longitude"] = <<"-", "1", "8", "1">>,
                             !["Cd"] = <<"-", "1">>], "Zn")

\* Every field passes: values on the bounds of their ranges, and cells
\* parseFloat reads a number from although they are not plain decimals (a
\* form feed before the number, text after it, a negative number that is
\* too small to be anything but -0, a number too large to be anything but
\* Infinity).
RowLenient ==
    [RowValid EXCEPT !["latitude"] = <<"\f", "9", "0">>,
                     !["longitude"] = <<"-", "1", "8", "0">>,
                     !["As"] = <<"-", "1", "e", "-", "3", "2", "4">>,
                     !["Cd"] = <<"1", "2", "a", "b", "c">>,
                     !["Cu"] = <<"1", ".", "7", "9", "8", "e", "3", "0", "8">>,
                     !["Fe"] = <<"0">>,
                     !["Mn"] = <<"1", "e", "3", "0", "0">>,
                     !["Zn"] = InfinityWord]

RowPool ==
    {RowValid, RowNoDate, RowEmptyDate, RowLat91, RowEmptyPb, RowNegativeNi,
     RowManyBad, RowLenient}

Batches == UNION {[1..m -> RowPool] : m \in 0..MaxRows}

\* The cells of the rows, and the cell a row does not hold.
Cells ==
    UNION {{row[col] : col \in DOMAIN row} : row \in RowPool} \cup {Undefined}

\* What parseFloat reads from each of them.
CellValues == [cell \in Cells |-> StringToNumber(cell)]

\* parseFloat(cell)
parseFloat(cell) ==
    IF cell \in Cells THEN CellValues[cell] ELSE StringToNumber(cell)

-----------------------------------------------------------------------------
(* DataUpload.tsx: validateData *)

\* row[col] of JavaScript: undefined for a key the row does not hold.
Get(row, col) == IF col \in DOMAIN row THEN row[col] ELSE Undefined

\* The decimal digits of an integer k >= 0, as `${k}` writes them.
RECURSIVE IntToChars(_)
IntToChars(k) ==
    LET c == CHOOSE ch \in Digits : DigitVal(ch) = k % 10
    IN  IF k < 10 THEN <<c>> ELSE Append(IntToChars(k \div 10), c)

\* `sample_${index + 1}`, for the 1-based position k = index + 1.
SampleId(k) == <<"s", "a", "m", "p", "l", "e", "_">> \o IntToChars(k)

\* new Date().toISOString().split('T')[0] on day `day` of January 2024 (UTC).
IsoDate(day) ==
    <<"2", "0", "2", "4", "-", "0", "1", "-">>
        \o (IF day < 10 THEN <<"0">> ELSE <<>>) \o IntToChars(day)

\* A diagnostic string: its fixed text, the field and the 1-based row it names,
\* and, for the missing-column diagnostic, the columns it joins with ', '.
Diagnostic(msg, field, row, cols) ==
    [msg |-> msg, field |-> field, row |-> row, cols |-> cols]

NoDataError == Diagnostic("No data found in the uploaded file", "", 0, <<>>)

MissingColumnsError(cols) ==
    Diagnostic("Missing required columns: ", "", 0, cols)

LatitudeError(k) == Diagnostic("Invalid latitude at row ", "latitude", k, <<>>)

LongitudeError(k) ==
    Diagnostic("Invalid longitude at row ", "longitude", k, <<>>)

MetalError(metal, k) ==
    Diagnostic("Invalid concentration at row ", metal, k, <<>>)

\* requiredColumns.filter(col => !(col in firstRow))
MissingColumns(firstRow) ==
    SelectSeq(requiredColumns, LAMBDA col : col \notin DOMAIN firstRow)

\* A latitude check without its upper bound.
BadLatitudeNoUpperBound(lat) == IsNaN(lat) \/ Lt(lat, Int2Num(-90))

\* isNaN(lat) || lat < -90 || lat > 90
BadLatitude(lat) ==
    IsNaN(lat) \/ Lt(lat, Int2Num(-90)) \/ Gt(lat, Int2Num(90))

\* isNaN(lng) || lng < -180 || lng > 180
BadLongitude(lng) ==
    IsNaN(lng) \/ Lt(lng, Int2Num(-180)) \/ Gt(lng, Int2Num(180))

\* A concentration check that lets negative values through.
BadConcentrationNaNOnly(value) == IsNaN(value)

\* isNaN(value) || value < 0
BadConcentration(value) == IsNaN(value) \/ Lt(value, Zero)

\* The diagnostics of the coordinate checks of row k.
CoordinateErrors(row, k) ==
    (IF BadLatitude(parseFloat(Get(row, "latitude")))
     THEN <<LatitudeError(k)>> ELSE <<>>)
    \o (IF BadLongitude(parseFloat(Get(row, "longitude")))
        THEN <<LongitudeError(k)>> ELSE <<>>)

\* metals.forEach over the metals from position j on: the diagnostics pushed.
RECURSIVE MetalErrors(_, _, _)
MetalErrors(row, k, j) ==
    IF j > Len(metals) THEN <<>>
    ELSE LET value == parseFloat(Get(row, metals[j]))
         IN  (IF BadConcentration(value)
              THEN <<MetalError(metals[j], k)>> ELSE <<>>)
             \o MetalErrors(row, k, j + 1)

\* metals.forEach over the metals from position j on: the entries written to
\* metalValues, in the order they are written.
RECURSIVE MetalValues(_, _)
MetalValues(row, j) ==
    IF j > Len(metals) THEN <<>>
    ELSE LET value == parseFloat(Get(row, metals[j]))
         IN  (IF BadConcentration(value) THEN <<>>
              ELSE <<[metal |-> metals[j], concentration |-> value]>>)
             \o MetalValues(row, j + 1)

\* A row check that skips the metals.
RowErrorsCoordinatesOnly(row, k) == CoordinateErrors(row, k)

\* A row check that reports the metals before the coordinates.
RowErrorsMetalsFirst(row, k) ==
    MetalErrors(row, k, 1) \o CoordinateErrors(row, k)

\* rowErrors of the row at 1-based position k.
RowErrors(row, k) == CoordinateErrors(row, k) \o MetalErrors(row, k, 1)

\* A sample date that ignores the date the row supplies.
SampleDateAlwaysToday(row, day) == IsoDate(day)

\* row.sampleDate || new Date().toISOString().split('T')[0]
SampleDate(row, day) ==
    IF Get(row, "sampleDate") \in {Undefined, <<>>} THEN IsoDate(day)
    ELSE Get(row, "sampleDate")

\* The sample pushed for an accepted row at 1-based position k, on day `day`.
MakeSample(row, k, day) ==
    [id         |-> SampleId(k),
     latitude   |-> parseFloat(Get(row, "latitude")),
     longitude  |-> parseFloat(Get(row, "longitude")),
     sampleDate |-> SampleDate(row, day),
     metals     |-> MetalValues(row, 1)]

\* A loop that numbers the samples by their position among the accepted rows.
RECURSIVE ValidateRowsDenseIds(_, _, _, _, _)
ValidateRowsDenseIds(data, k, days, errors, samples) ==
    IF k > Len(data) THEN [errors |-> errors, samples |-> samples]
    ELSE LET rowErrors == CoordinateErrors(data[k], k)
                              \o MetalErrors(data[k], k, 1)
         IN  IF Len(rowErrors) = 0
             THEN ValidateRowsDenseIds(
                      data, k + 1, days, errors,
                      Append(samples,
                             MakeSample(data[k], Len(samples) + 1, days[k])))
             ELSE ValidateRowsDenseIds(data, k + 1, days,
                                       errors \o rowErrors, samples)

\* data.forEach from 1-based position k on, with what was pushed so far; the
\* callback of row k runs on day days[k], and reads the clock itself when it
\* defaults the sample date.
RECURSIVE ValidateRows(_, _, _, _, _)
ValidateRows(data, k, days, errors, samples) ==
    IF k > Len(data) THEN [errors |-> errors, samples |-> samples]
    ELSE LET rowErrors == RowErrors(data[k], k)
         IN  IF Len(rowErrors) = 0
             THEN ValidateRows(data, k + 1, days, errors,
                               Append(samples,
                                      MakeSample(data[k], k, days[k])))
             ELSE ValidateRows(data, k + 1, days, errors \o rowErrors, samples)

\* A validator that accepts an empty file.
validateDataEmptyAccepted(data, days) ==
    IF Len(data) = 0
    THEN [isValid |-> TRUE, errors |-> <<>>, samples |-> <<>>]
    ELSE LET missingColumns == MissingColumns(data[1])
             r == ValidateRows(data, 1, days,
                               IF Len(missingColumns) > 0
                               THEN <<MissingColumnsError(missingColumns)>>
                               ELSE <<>>,
                               <<>>)
         IN  [isValid |-> Len(r.errors) = 0,
              errors  |-> r.errors,
              samples |-> r.samples]

\* A validator that stops at a missing column.
validateDataHeaderFatal(data, days) ==
    IF Len(data) = 0
    THEN [isValid |-> FALSE, errors |-> <<NoDataError>>, samples |-> <<>>]
    ELSE LET missingColumns == MissingColumns(data[1])
             r == ValidateRows(data, 1, days, <<>>, <<>>)
         IN  IF Len(missingColumns) > 0
             THEN [isValid |-> FALSE,
                   errors  |-> <<MissingColumnsError(missingColumns)>>,
                   samples |-> <<>>]
             ELSE [isValid |-> Len(r.errors) = 0,
                   errors  |-> r.errors,
                   samples |-> r.samples]

\* validateData(data), where days[k] is the day on which the callback of
\* row k runs (midnight may pass between two rows).
validateData(data, days) ==
    IF Len(data) = 0
    THEN [isValid |-> FALSE, errors |-> <<NoDataError>>, samples |-> <<>>]
    ELSE LET missingColumns == MissingColumns(data[1])
             r == ValidateRows(data, 1, days,
                               IF Len(missingColumns) > 0
                               THEN <<MissingColumnsError(missingColumns)>>
                               ELSE <<>>,
                               <<>>)
         IN  [isValid |-> Len(r.errors) = 0,
              errors  |-> r.errors,
              samples |-> r.samples]

-----------------------------------------------------------------------------
(* CalculationEngine.tsx: calculateHPI, calculatePLI *)

\* The metals that have a WHO standard.
StandardMetals == {metals[j] : j \in 1..Len(metals)}

\* The number a decimal literal of the source denotes, for the literal as
\* <<n, e>> with the value n * 10^e.
Literal(l) == Num(l[1], 1, l[2])

\* An object literal of numbers: the entry of each key.
ObjectOf(literals, keys) ==
    IF keys = {} THEN <<>>
    ELSE [key \in keys |-> Literal(literals[key])] @@ <<>>

\* WHO/EPA standard values for heavy metals in drinking water (mg/L).
WHO_STANDARDS ==
    ObjectOf([As |-> <<1, -2>>,     \* 0.01
              Cd |-> <<3, -3>>,     \* 0.003
              Cr |-> <<5, -2>>,     \* 0.05
              Cu |-> <<20, -1>>,    \* 2.0
              Fe |-> <<3, -1>>,     \* 0.3
              Mn |-> <<1, -1>>,     \* 0.1
              Ni |-> <<7, -2>>,     \* 0.07
              Pb |-> <<1, -2>>,     \* 0.01
              Zn |-> <<30, -1>>],   \* 3.0
             StandardMetals)

METAL_WEIGHTS ==
    ObjectOf([As |-> <<10, -1>>, Cd |-> <<10, -1>>, Cr |-> <<10, -1>>,
              Cu |-> <<10, -1>>, Fe |-> <<10, -1>>, Mn |-> <<10, -1>>,
              Ni |-> <<10, -1>>, Pb |-> <<10, -1>>, Zn |-> <<10, -1>>],
             StandardMetals)

\* The table has an entry for metal (an own property of the object literal).
HasKey(table, metal) == metal \in DOMAIN table

\* The property names every object literal inherits from Object.prototype.
ObjectPrototypeKeys ==
    {"constructor", "toString", "toLocaleString", "valueOf", "hasOwnProperty",
     "isPrototypeOf", "propertyIsEnumerable", "__proto__",
     "__defineGetter__", "__defineSetter__", "__lookupGetter__",
     "__lookupSetter__"}

\* A value that is no number: undefined, an object or function (what an
\* inherited property holds), a string.
UndefinedValue == [k |-> "undef", s |-> 1, m |-> <<>>, q |-> 0]

ObjectValue == [k |-> "obj", s |-> 1, m |-> <<>>, q |-> 0]

StringValue == [k |-> "str", s |-> 1, m |-> <<>>, q |-> 0]

\* A lookup that reads 1 for a metal the table has no entry for.
LookupOrOne(table, metal) ==
    IF HasKey(table, metal) THEN table[metal] ELSE Int2Num(1)

\* table[metal]: the entry of the table, else the property of that name
\* inherited from Object.prototype, else undefined.
Lookup(table, metal) ==
    IF HasKey(table, metal) THEN table[metal]
    ELSE IF metal \in ObjectPrototypeKeys THEN ObjectValue
    ELSE UndefinedValue

\* A value as a condition: undefined, 0 and NaN are false; an object, a
\* function and the strings that occur here (none is empty) are true.
Truthy(x) ==
    IF x.k = "undef" THEN FALSE
    ELSE IF x.k \in {"obj", "str"} THEN TRUE
    ELSE ~IsNaN(x) /\ ~IsZero(x)

\* The number an operand of /, * or > is converted to: undefined, an object,
\* a function and the strings that occur here (a number followed by the
\* source text of a function) give NaN.
ToNumber(x) == IF x.k \in {"undef", "obj", "str"} THEN NaN ELSE x

\* x + y of JavaScript: the sum of two numbers, and a string when an operand
\* is an object, a function or a string.
Plus(x, y) ==
    IF x.k \in {"obj", "str"} \/ y.k \in {"obj", "str"} THEN StringValue
    ELSE Add(ToNumber(x), ToNumber(y))

\* Math.pow(base, 1 / count) for an integer count >= 1.  The language leaves
\* the last digit of Math.pow to the implementation; the model computes what
\* the routine of the engine computes, step by step.
MathPowInverse(base, count) ==
    IF IsNaN(base) THEN NaN
    ELSE IF count = 1 THEN base
    ELSE IF IsZero(base) THEN Zero
    ELSE IF base.k = "inf" THEN PosInfinity
    ELSE IF base.s < 0 THEN NaN
    ELSE PowInverse(base, count)

\* The forEach of calculateHPI over the entries from position j on; HPIEntry
\* is the callback for entry j, with the concentration of the entry and the
\* standard and the weight the tables hold for its metal.
RECURSIVE HPILoop(_, _, _, _)
HPIEntry(entries, j, weightedSum, totalWeight, concentration, standard, weight) ==
    IF Truthy(standard) /\ Truthy(weight)
    THEN HPILoop(entries, j + 1,
                 Plus(weightedSum,
                      Mul(ToNumber(weight),
                          Mul(Div(concentration, ToNumber(standard)),
                              Int2Num(100)))),
                 Plus(totalWeight, weight))
    ELSE HPILoop(entries, j + 1, weightedSum, totalWeight)

HPILoop(entries, j, weightedSum, totalWeight) ==
    IF j > Len(entries)
    THEN [weightedSum |-> weightedSum, totalWeight |-> totalWeight]
    ELSE HPIEntry(entries, j, weightedSum, totalWeight,
                  entries[j].concentration,
                  Lookup(WHO_STANDARDS, entries[j].metal),
                  Lookup(METAL_WEIGHTS, entries[j].metal))

\* totalWeight > 0 ? weightedSum / totalWeight : 0
HPIOf(r) ==
    IF Gt(ToNumber(r.totalWeight), Zero)
    THEN Div(r.weightedSum, r.totalWeight)
    ELSE Zero

\* calculateHPI(metals), for the entries of metals in Object.entries order.
calculateHPI(entries) == HPIOf(HPILoop(entries, 1, Zero, Zero))

\* The forEach of calculatePLI over the entries from position j on; PLIEntry
\* is the callback for entry j.
RECURSIVE PLILoop(_, _, _, _)
PLIEntry(entries, j, product, count, concentration, standard) ==
    IF Truthy(standard)
    THEN PLILoop(entries, j + 1,
                 Mul(product, Div(concentration, ToNumber(standard))),
                 count + 1)
    ELSE PLILoop(entries, j + 1, product, count)

PLILoop(entries, j, product, count) ==
    IF j > Len(entries) THEN [product |-> product, count |-> count]
    ELSE PLIEntry(entries, j, product, count, entries[j].concentration,
                  Lookup(WHO_STANDARDS, entries[j].metal))

\* A load index that leaves out the root.
PLIProductOf(r) == IF r.count > 0 THEN r.product ELSE Zero

calculatePLIProduct(entries) == PLIProductOf(PLILoop(entries, 1, Int2Num(1), 0))

\* count > 0 ? Math.pow(product, 1 / count) : 0
PLIOf(r) == IF r.count > 0 THEN MathPowInverse(r.product, r.count) ELSE Zero

\* calculatePLI(metals), for the entries of metals in Object.entries order.
calculatePLI(entries) == PLIOf(PLILoop(entries, 1, Int2Num(1), 0))

\* The forEach of calculateCF over the entries from position j on; CFEntry is
\* the callback for entry j.
RECURSIVE CFLoop(_, _, _, _)
CFEntry(entries, j, totalCF, count, concentration, standard) ==
    IF Truthy(standard)
    THEN CFLoop(entries, j + 1,
                Add(totalCF, Div(concentration, ToNumber(standard))),
                count + 1)
    ELSE CFLoop(entries, j + 1, totalCF, count)

CFLoop(entries, j, totalCF, count) ==
    IF j > Len(entries) THEN [totalCF |-> totalCF, count |-> count]
    ELSE CFEntry(entries, j, totalCF, count, entries[j].concentration,
                 Lookup(WHO_STANDARDS, entries[j].metal))

\* A contamination factor that is the sum of the factors, not their mean.
calculateCFSum(entries) == CFLoop(entries, 1, Zero, 0).totalCF

\* count > 0 ? totalCF / count : 0
CFOf(r) == IF r.count > 0 THEN Div(r.totalCF, Int2Num(r.count)) ELSE Zero

\* calculateCF(metals), for the entries of metals in Object.entries order.
calculateCF(entries) == CFOf(CFLoop(entries, 1, Zero, 0))

-----------------------------------------------------------------------------
(* CalculationEngine.tsx: categorizeWaterQuality *)

\* x < c of JavaScript for an integer c.
Below(x, c) == Lt(x, Int2Num(c))

\* A classifier in which the better of the two metrics decides.
categorizeEitherMetric(hpi_, pli_) ==
    IF Below(hpi_, 25) \/ Below(pli_, 1) THEN "excellent"
    ELSE IF Below(hpi_, 50) \/ Below(pli_, 2) THEN "good"
    ELSE IF Below(hpi_, 75) \/ Below(pli_, 3) THEN "moderate"
    ELSE IF Below(hpi_, 100) \/ Below(pli_, 5) THEN "poor"
    ELSE "unsuitable"

\* A classifier whose last rule falls through to the best category.
categorizeFallsToExcellent(hpi_, pli_) ==
    IF Below(hpi_, 25) /\ Below(pli_, 1) THEN "excellent"
    ELSE IF Below(hpi_, 50) /\ Below(pli_, 2) THEN "good"
    ELSE IF Below(hpi_, 75) /\ Below(pli_, 3) THEN "moderate"
    ELSE IF Below(hpi_, 100) /\ Below(pli_, 5) THEN "poor"
    ELSE "excellent"

\* A classifier whose thresholds on hpi are inclusive upper bounds.
categorizeInclusive(hpi_, pli_) ==
    IF ~Gt(hpi_, Int2Num(25)) /\ ~IsNaN(hpi_) /\ Below(pli_, 1)
    THEN "excellent"
    ELSE IF ~Gt(hpi_, Int2Num(50)) /\ ~IsNaN(hpi_) /\ Below(pli_, 2)
    THEN "good"
    ELSE IF ~Gt(hpi_, Int2Num(75)) /\ ~IsNaN(hpi_) /\ Below(pli_, 3)
    THEN "moderate"
    ELSE IF ~Gt(hpi_, Int2Num(100)) /\ ~IsNaN(hpi_) /\ Below(pli_, 5)
    THEN "poor"
    ELSE "unsuitable"

\* categorizeWaterQuality(hpi, pli)
categorizeWaterQuality(hpi_, pli_) ==
    IF Below(hpi_, 25) /\ Below(pli_, 1) THEN "excellent"
    ELSE IF Below(hpi_, 50) /\ Below(pli_, 2) THEN "good"
    ELSE IF Below(hpi_, 75) /\ Below(pli_, 3) THEN "moderate"
    ELSE IF Below(hpi_, 100) /\ Below(pli_, 5) THEN "poor"
    ELSE "unsuitable"

-----------------------------------------------------------------------------
(* CalculationEngine.tsx: performCalculations *)

\* No number: not computed yet, or absent.
NotRun == [k |-> "none", s |-> 1, m |-> <<>>, q |-> 0]

\* sample.hmpiResults of a sample that has no such property.
NoResults ==
    [hpi |-> NotRun, pli |-> NotRun, cf |-> NotRun,
     qualityCategory |-> "undefined"]

\* The WaterSample object validateData creates: it has no hmpiResults.
WaterSample(s) ==
    [id          |-> s.id,
     latitude    |-> s.latitude,
     longitude   |-> s.longitude,
     sampleDate  |-> s.sampleDate,
     metals      |-> s.metals,
     hmpiResults |-> NoResults]

\* The sample with its hmpiResults.
SampleWithResults(sample, hpiValue, pliValue, cfValue) ==
    [id          |-> sample.id,
     latitude    |-> sample.latitude,
     longitude   |-> sample.longitude,
     sampleDate  |-> sample.sampleDate,
     metals      |-> sample.metals,
     hmpiResults |-> [hpi |-> hpiValue, pli |-> pliValue, cf |-> cfValue,
                      qualityCategory |->
                          categorizeWaterQuality(hpiValue, pliValue)]]

\* The object the callback of samples.map returns for a sample.
CalculatedSample(sample, selected) ==
    SampleWithResults(
        sample,
                IF selected.hpi THEN calculateHPI(sample.metals) ELSE Zero,
                IF selected.pli THEN calculatePLI(sample.metals) ELSE Zero,
                IF selected.cf THEN calculateCF(sample.metals) ELSE Zero)

\* A map that returns the samples in reverse order.
calculatedSamplesReversed(objects, selected) ==
    [i \in 1..Len(objects) |->
        CalculatedSample(objects[Len(objects) + 1 - i], selected)]

\* calculatedSamples = samples.map(...): the new objects, in order.
calculatedSamples(objects, selected) ==
    [i \in 1..Len(objects) |-> CalculatedSample(objects[i], selected)]

\* Object.values(selectedIndices).filter(Boolean).length
selectedCount(selected) ==
    Cardinality({x \in {"hpi", "pli", "cf"} : selected[x]})

-----------------------------------------------------------------------------
(* ResultsVisualization.tsx: the aggregates *)

\* A rounding down: Math.floor(x).
MathFloor(x) ==
    IF x.k # "fin" \/ x.q >= 0 THEN x
    ELSE IntegerNear(x, x.s < 0 /\ LowBits(x.m, -x.q))

\* Math.round(x): the integer nearest to x, the larger one on a tie; the
\* sign of x is kept when the integer is 0.
MathRound(x) ==
    IF x.k # "fin" \/ x.q >= 0 THEN x
    ELSE IntegerNear(x, /\ Bit(x.m, -x.q - 1) = 1
                        /\ (x.s > 0 \/ LowBits(x.m, -x.q - 1)))

\* floor(|x| * scale + 1/2) for a finite x with this below 2^31.
FixedScaled(scaled, q) ==
    BigToInt(ShiftBy(scaled, q)) + (IF q >= 0 THEN 0 ELSE Bit(scaled, -q - 1))

\* x comes before y in the order of Math.min and Math.max, in which -0 is
\* below 0.
Under(x, y) == Lt(x, y) \/ (x = NegZero /\ y = Zero)

\* Math.min(...values): Infinity for no value, NaN when a value is NaN.
MathMin(values) ==
    IF Len(values) = 0 THEN PosInfinity
    ELSE IF \E i \in 1..Len(values) : IsNaN(values[i]) THEN NaN
    ELSE values[CHOOSE i \in 1..Len(values) :
                    \A j \in 1..Len(values) : ~Under(values[j], values[i])]

\* The last of the values, whatever the others are.
MathMaxOfLast(values) ==
    IF Len(values) = 0 THEN NegInfinity ELSE values[Len(values)]

\* Math.max(...values): -Infinity for no value, NaN when a value is NaN.
MathMax(values) ==
    IF Len(values) = 0 THEN NegInfinity
    ELSE IF \E i \in 1..Len(values) : IsNaN(values[i]) THEN NaN
    ELSE values[CHOOSE i \in 1..Len(values) :
                    \A j \in 1..Len(values) : ~Under(values[i], values[j])]

\* values.reduce((a, b) => a + b, 0) over the values up to position j.
RECURSIVE ReduceSum(_, _)
ReduceSum(values, j) ==
    IF j = 0 THEN Zero ELSE Add(ReduceSum(values, j - 1), values[j])

\* The integer n for which n / 10^digits is nearest to |x| (the larger n
\* when two are as near), for a finite x with n < 2^31 and digits <= 3.
FixedDigits(x, digits) ==
    FixedScaled(MulSmall(x.m, CASE digits = 0 -> 1 [] digits = 1 -> 10
                                [] digits = 2 -> 100 [] digits = 3 -> 1000),
                x.q)

\* The sign x.toFixed writes: - for x < 0.
FixedSign(x) == IF Lt(x, Zero) THEN <<"-">> ELSE <<>>

\* A rounding to no decimal, as x.toFixed(0) writes it.
toFixedNoDecimal(x) == FixedSign(x) \o IntToChars(FixedDigits(x, 0))

\* x.toFixed(1) for a finite x below 10^8 in size: the digits of the integer
\* n for which n / 10 is nearest to |x| (the larger n on a tie), with a point
\* before the last one.
toFixed1(x) ==
    LET n == FixedDigits(x, 1)
    IN  FixedSign(x) \o IntToChars(n \div 10) \o <<".">> \o IntToChars(n % 10)

\* samples.filter(s => s.hmpiResults)
processedSamples(batch) ==
    SelectSeq(batch, LAMBDA s : s.hmpiResults # NoResults)

\* min, max and avg of a sequence of values.
Statistics(values) ==
    [min |-> MathMin(values),
     max |-> MathMax(values),
     avg |-> Div(ReduceSum(values, Len(values)), Int2Num(Len(values)))]

\* statisticsData
statisticsData(batch) ==
    LET processed == processedSamples(batch)
    IN  [hpi |-> Statistics([i \in 1..Len(processed) |->
                                processed[i].hmpiResults.hpi]),
         pli |-> Statistics([i \in 1..Len(processed) |->
                                processed[i].hmpiResults.pli])]

\* QUALITY_COLORS
QUALITY_COLORS ==
    [excellent  |-> "hsl(var(--excellent))",
     good       |-> "hsl(var(--good))",
     moderate   |-> "hsl(var(--moderate))",
     poor       |-> "hsl(var(--poor))",
     unsuitable |-> "hsl(var(--unsuitable))"]

\* category.charAt(0).toUpperCase() + category.slice(1)
Capitalized(category) ==
    CASE category = "excellent"  -> "Excellent"
      [] category = "good"       -> "Good"
      [] category = "moderate"   -> "Moderate"
      [] category = "poor"       -> "Poor"
      [] category = "unsuitable" -> "Unsuitable"

\* The reduce of qualityDistribution over the samples up to position j: the
\* keys of the accumulator in the order they were inserted, and the counts.
RECURSIVE Distribution(_, _)
Distribution(processed, j) ==
    IF j = 0 THEN [keys |-> <<>>, count |-> [c \in {} |-> 0]]
    ELSE LET acc      == Distribution(processed, j - 1)
             category == processed[j].hmpiResults.qualityCategory
         IN  IF category \in DOMAIN acc.count
             THEN [keys  |-> acc.keys,
                   count |-> [acc.count EXCEPT ![category] = @ + 1]]
             ELSE [keys  |-> Append(acc.keys, category),
                   count |-> [c \in DOMAIN acc.count \cup {category} |->
                                 IF c = category THEN 1 ELSE acc.count[c]]]

\* A distribution whose percentages are taken of all the samples.
qualityDistributionOfAll(batch) ==
    LET processed    == processedSamples(batch)
        distribution == Distribution(processed, Len(processed))
    IN  [i \in 1..Len(distribution.keys) |->
            LET category == distribution.keys[i]
                count    == distribution.count[category]
            IN  [category   |-> Capitalized(category),
                 count      |-> count,
                 percentage |->
                    toFixed1(Mul(Div(Int2Num(count), Int2Num(Len(batch))),
                                 Int2Num(100))),
                 color      |-> QUALITY_COLORS[category]]]

\* A distribution whose entries are in the order excellent to unsuitable.
qualityDistributionCanonical(batch) ==
    LET processed    == processedSamples(batch)
        distribution == Distribution(processed, Len(processed))
        canonical    == <<"excellent", "good", "moderate", "poor", "unsuitable">>
        keys         == SelectSeq(canonical,
                                  LAMBDA c : c \in DOMAIN distribution.count)
    IN  [i \in 1..Len(keys) |->
            LET category == keys[i]
                count    == distribution.count[category]
            IN  [category   |-> Capitalized(category),
                 count      |-> count,
                 percentage |->
                    toFixed1(Mul(Div(Int2Num(count), Int2Num(Len(processed))),
                                 Int2Num(100))),
                 color      |-> QUALITY_COLORS[category]]]

\* qualityDistribution
qualityDistribution(batch) ==
    LET processed    == processedSamples(batch)
        distribution == Distribution(processed, Len(processed))
    IN  [i \in 1..Len(distribution.keys) |->
            LET category == distribution.keys[i]
                count    == distribution.count[category]
            IN  [category   |-> Capitalized(category),
                 count      |-> count,
                 percentage |->
                    toFixed1(Mul(Div(Int2Num(count), Int2Num(Len(processed))),
                                 Int2Num(100))),
                 color      |-> QUALITY_COLORS[category]]]

\* sample.metals[metal]
MetalOf(sample, metal) ==
    IF \E j \in 1..Len(sample.metals) : sample.metals[j].metal = metal
    THEN sample.metals[CHOOSE j \in 1..Len(sample.metals) :
                           sample.metals[j].metal = metal].concentration
    ELSE UndefinedValue

\* The display name of a metal.
MetalName(metal) ==
    CASE metal = "As" -> "Arsenic"
      [] metal = "Cd" -> "Cadmium"
      [] metal = "Cr" -> "Chromium"
      [] metal = "Cu" -> "Copper"
      [] metal = "Fe" -> "Iron"
      [] metal = "Mn" -> "Manganese"
      [] metal = "Ni" -> "Nickel"
      [] metal = "Pb" -> "Lead"
      [] OTHER        -> "Zinc"

\* metalContributionData
metalContributionData(batch) ==
    LET processed == processedSamples(batch)
    IN  [m \in 1..Len(metals) |->
            LET values == [i \in 1..Len(processed) |->
                              ToNumber(MetalOf(processed[i], metals[m]))]
                avgConcentration ==
                    Div(ReduceSum(values, Len(values)), Int2Num(Len(values)))
            IN  [metal |-> metals[m],
                 concentration |->
                    Div(MathRound(Mul(avgConcentration, Int2Num(1000))),
                        Int2Num(1000)),
                 name |-> MetalName(metals[m])]]

\* A comparator that never returns 0: b > a ? 1 : -1 on the concentrations
\* of two entries of Object.entries(sample.metals).
PollutantOrderTiesReversed(a, b) ==
    IF Gt(b.concentration, a.concentration) THEN 1 ELSE -1

\* ([,a], [,b]) => b - a, as Array.prototype.sort reads it: its sign, and 0
\* when it is NaN.
PollutantOrder(a, b) ==
    LET v == Sub(b.concentration, a.concentration)
    IN  IF IsNaN(v) \/ IsZero(v) THEN 0 ELSE IF Lt(v, Zero) THEN -1 ELSE 1

\* Array.prototype.sort of the engine on an array of fewer than 64 entries
\* (a panel has 9): the run at the head of the array is found, reversed when
\* it descends, and the entries after it are inserted one by one at the
\* place a binary search gives.
\*
\* The length of the run at the head of work, which holds the entries
\* before position idx: the entry at idx goes on with a descending run when
\* the comparator is negative on it and the entry before it, and with
\* another run when it is not.
RECURSIVE CountAndMakeRun(_, _, _)
CountAndMakeRun(work, idx, descending) ==
    IF idx > Len(work) THEN Len(work)
    ELSE IF (PollutantOrder(work[idx], work[idx - 1]) < 0) = descending
    THEN CountAndMakeRun(work, idx + 1, descending)
    ELSE idx - 1

\* The array with its first n entries in the opposite order.
ReverseRange(work, n) ==
    [i \in 1..Len(work) |-> IF i <= n THEN work[n + 1 - i] ELSE work[i]]

\* The number of entries of work that stay before pivot, searched between
\* left and right: the half below the middle entry when the comparator is
\* negative on pivot and that entry, the half above it otherwise.
RECURSIVE BinarySearch(_, _, _, _)
BinarySearch(work, pivot, left, right) ==
    IF left >= right THEN left
    ELSE IF PollutantOrder(pivot, work[left + (right - left) \div 2 + 1]) < 0
    THEN BinarySearch(work, pivot, left, left + (right - left) \div 2)
    ELSE BinarySearch(work, pivot, left + (right - left) \div 2 + 1, right)

\* The array with the entry after its first start entries moved to follow
\* its first left entries.
MoveTo(work, start, left) ==
    [i \in 1..Len(work) |->
        IF i <= left \/ i > start + 1 THEN work[i]
        ELSE IF i = left + 1 THEN work[start + 1]
        ELSE work[i - 1]]

\* The array whose first start entries are sorted, with every later entry
\* inserted among them in turn.
RECURSIVE BinaryInsertionSort(_, _)
BinaryInsertionSort(work, start) ==
    IF start >= Len(work) THEN work
    ELSE BinaryInsertionSort(
             MoveTo(work, start, BinarySearch(work, work[start + 1], 0, start)),
             start + 1)

\* The sort of an array of two entries or more; the run at its head
\* descends when the comparator is negative on the second entry and the
\* first, and it is then reversed.
SortFrom(work, descending, n) ==
    BinaryInsertionSort(IF descending THEN ReverseRange(work, n) ELSE work, n)

\* entries.sort(...)
ArraySort(entries) ==
    IF Len(entries) < 2 THEN entries
    ELSE SortFrom(entries, PollutantOrder(entries[2], entries[1]) < 0,
                  CountAndMakeRun(entries, 3,
                      PollutantOrder(entries[2], entries[1]) < 0))

\* topPollutants: the metals of the first two entries of the sorted array.
topPollutants(sample) ==
    LET sorted == ArraySort(sample.metals)
    IN  [i \in 1..(IF Len(sorted) < 2 THEN Len(sorted) ELSE 2) |->
            sorted[i].metal]

\* The rows of the table: the first ten samples with results.
tableRows(batch) ==
    LET processed == processedSamples(batch)
    IN  [i \in 1..(IF Len(processed) < 10 THEN Len(processed) ELSE 10) |->
            [id            |-> processed[i].id,
             topPollutants |-> topPollutants(processed[i])]]

-----------------------------------------------------------------------------
(* The inputs of the index calculator *)

\* The smallest positive number, 2^-1074, which parseFloat reads from
\* "5e-324".
MinValue == Num(5, 1, -324)

\* The concentrations of a panel, as multiples of the metal's WHO standard:
\* among them 100 * 2^-1074, at which As is at 2^-1074 and the means are
\* rounded to a multiple of 2^-1074, and Infinity (which validateData
\* accepts).
Levels ==
    {Zero, Mul(Int2Num(100), MinValue), Num(1, 1, 0), Num(2, 1, 0),
     Num(1, 1, 2), Num(1, 1, 200), PosInfinity}

\* The panel of a validated sample: the 9 metals in the order validateData
\* writes them, As, Cd and Cr at a, b and c times their standard and the
\* other six at rest times it (the products are those of the language).
PanelOf(a, b, c, rest) ==
    [j \in 1..Len(metals) |->
        [metal |-> metals[j],
         concentration |->
            Mul(IF j = 1 THEN a ELSE IF j = 2 THEN b
                ELSE IF j = 3 THEN c ELSE rest,
                WHO_STANDARDS[metals[j]])]]

\* The panels with As, Cd and the 7 other metals at any level.
FullPanels == {PanelOf(a, b, rest, rest) : a, b, rest \in Levels}

\* The largest number of keys of a panel that is not one of a validated sample.
MaxKeys == 3

\* Entries of such a panel: metals with a standard (two of them at 10^306
\* times it), a metal without one, and two keys that name properties every
\* object inherits.
SparseEntries ==
    {[metal |-> "As", concentration |-> Num(2, 1, -2)],
     [metal |-> "Cd", concentration |-> Num(3, 1, -3)],
     [metal |-> "Pb", concentration |-> Num(1, 1, 304)],
     [metal |-> "Zn", concentration |-> Num(3, 1, 306)],
     [metal |-> "Hg", concentration |-> Num(1, 1, 0)],
     [metal |-> "constructor", concentration |-> Num(1, 1, 0)],
     [metal |-> "__defineGetter__", concentration |-> Num(1, 1, 0)]}

\* The panels of up to MaxKeys of these entries, in any order of insertion
\* (the keys of an object are distinct).
SparsePanels ==
    {p \in UNION {[1..m -> SparseEntries] : m \in 0..MaxKeys} :
        \A i, j \in 1..Len(p) : i # j => p[i].metal # p[j].metal}

Panels == FullPanels \cup SparsePanels

-----------------------------------------------------------------------------
(* The inputs of the calculation step *)

\* A row with every metal at a tenth of its WHO standard.
RowClean ==
    [latitude |-> <<"1", "0">>, longitude |-> <<"2", "0">>,
     sampleDate |-> <<"2", "0", "2", "4", "-", "0", "2", "-", "0", "1">>,
     As |-> <<"0", ".", "0", "0", "1">>,
     Cd |-> <<"0", ".", "0", "0", "0", "3">>,
     Cr |-> <<"0", ".", "0", "0", "5">>,
     Cu |-> <<"0", ".", "2">>,
     Fe |-> <<"0", ".", "0", "3">>,
     Mn |-> <<"0", ".", "0", "1">>,
     Ni |-> <<"0", ".", "0", "0", "7">>,
     Pb |-> <<"0", ".", "0", "0", "1">>,
     Zn |-> <<"0", ".", "3">>]

\* Rows validateData accepts, with different panels.
AcceptedRowPool == {RowClean, RowValid, RowLenient}

\* The largest uploaded batch the calculation step is followed on.
MaxBatch == 2

\* The number of calculation runs followed.
MaxCalcRuns == 2

\* The sample batches an upload can hand to the Dashboard: what validateData
\* returns on 1 to MaxBatch accepted rows.
UploadedBatches ==
    UNION {{[i \in 1..m |->
                WaterSample(validateData(rows, [k \in 1..m |-> 30]).samples[i])] :
                rows \in [1..m -> AcceptedRowPool]} : m \in 1..MaxBatch}

-----------------------------------------------------------------------------
(* The inputs of the aggregates *)

\* The kinds of sample of a batch: five that carry results, with every metal
\* at 0.1, 0.3, 0.6, 0.9 and 2 times its standard (one per quality category),
\* two that carry none, at 2 and 0.1 times, and two more that carry results:
\* one with every metal at 1.9e305 times its standard (hpi 1.9e307, of which
\* ten sum to more than the largest double) and one with As and Cd at 1e200
\* times, Cr at 0 and the others at their standard (pli NaN).
KindLevels ==
    <<Num(1, 1, -1), Num(3, 1, -1), Num(6, 1, -1), Num(9, 1, -1),
      Num(2, 1, 0), Num(2, 1, 0), Num(1, 1, -1), Num(19, 1, 304),
      Num(1, 1, 200)>>

Kinds == 1..Len(KindLevels)

CalculatedKinds == (1..5) \cup {8, 9}

\* The kinds of a short batch.
ShortKinds == 1..7

\* The sample of each kind, but for its id: the kinds that carry results are
\* what performCalculations returns under the default selection.
KindSample ==
    [kind \in Kinds |->
        LET level  == KindLevels[kind]
            sample == [id         |-> SampleId(kind),
                       latitude   |-> Int2Num(10 * kind),
                       longitude  |-> Int2Num(-10 * kind),
                       sampleDate |-> IsoDate(kind),
                       metals     |->
                          IF kind = 9
                          THEN PanelOf(level, level, Zero, Num(1, 1, 0))
                          ELSE PanelOf(level, level, level, level)]
        IN  IF kind \in CalculatedKinds
            THEN CalculatedSample(sample,
                                  [hpi |-> TRUE, pli |-> TRUE, cf |-> FALSE])
            ELSE WaterSample(sample)]

\* The size of a large block of samples.
LargeBlock == 10

\* The sizes of the block of a kind: no sample or one, for the samples at
\* twice the standards also a large block, and for those at 1.9e305 times
\* none or a large block.
BlockSizes(kind) ==
    IF kind = 5 THEN {0, 1, LargeBlock}
    ELSE IF kind = 8 THEN {0, LargeBlock}
    ELSE {0, 1}

\* The sizes of the blocks of a batch.
Compositions ==
    {sizes \in [Kinds -> {0, 1, LargeBlock}] :
        \A kind \in Kinds : sizes[kind] \in BlockSizes(kind)}

\* The kinds of a batch in the order of its blocks.
RECURSIVE KindsInOrder(_, _, _)
KindsInOrder(sizes, reversed, j) ==
    IF j > Len(KindLevels) THEN <<>>
    ELSE LET kind == IF reversed THEN Len(KindLevels) + 1 - j ELSE j
         IN  [i \in 1..sizes[kind] |-> kind]
                 \o KindsInOrder(sizes, reversed, j + 1)

\* The batch of a block of sizes[kind] samples of every kind, in the order of
\* the kinds or in the reverse order, with the ids of their positions.
BatchOf(sizes, reversed) ==
    LET kinds == KindsInOrder(sizes, reversed, 1)
    IN  [i \in 1..Len(kinds) |-> [KindSample[kinds[i]] EXCEPT !.id = SampleId(i)]]

\* A short batch holds at most MaxShort samples.
MaxShort == 3

\* The short batches: the samples of any kinds in any order, so that the
\* samples of a category need not be adjacent.
ShortBatches ==
    UNION {{[i \in 1..m |-> [KindSample[kinds[i]] EXCEPT !.id = SampleId(i)]] :
                kinds \in [1..m -> ShortKinds]} : m \in 1..MaxShort}

\* Nothing rendered yet.
NotRendered == [done |-> FALSE]

-----------------------------------------------------------------------------
(* The inputs of topPollutants *)

\* The concentrations of the panels whose metals tie: 0 and -0 (what
\* parseFloat reads from "-0") are equal as numbers.
PollutantLevels == {Zero, NegZero, Num(1, 1, 0), PosInfinity}

\* The largest number of metals of such a panel that are not at 0.
MaxTied == 3

\* The concentrations of the 9 metals of such a panel.
TiedLevels ==
    {c \in [1..Len(metals) -> PollutantLevels] :
        Cardinality({j \in 1..Len(metals) : c[j] # Zero}) <= MaxTied}

\* The batch of one sample with results whose 9 metals are at the
\* concentrations c.
TiedBatch(c) ==
    <<CalculatedSample(
          [id         |-> SampleId(1),
           latitude   |-> Int2Num(10),
           longitude  |-> Int2Num(20),
           sampleDate |-> IsoDate(1),
           metals     |-> [j \in 1..Len(metals) |->
                              [metal |-> metals[j], concentration |-> c[j]]]],
          [hpi |-> TRUE, pli |-> TRUE, cf |-> FALSE])>>

-----------------------------------------------------------------------------
(* The inputs of the Dashboard *)

\* The number of files the user uploads.
MaxUploads == 2

\* The message of the error Papa.parse hands to its error callback for a file
\* that cannot be read.
NotReadableMessage ==
    "The requested file could not be read, typically due to permission problems that have occurred after a reference to a file was acquired."

\* The files the user chooses, as Papa.parse reads them: one of an accepted
\* row, one of two accepted rows, one of an accepted row and a row with a bad
\* latitude, one whose header lacks sampleDate and whose row is accepted, one
\* without a row, and one Papa.parse cannot read; message is that of the
\* error of a file that cannot be read.
Files ==
    {[chosen |-> TRUE, readable |-> TRUE, data |-> <<RowClean>>,
      message |-> ""],
     [chosen |-> TRUE, readable |-> TRUE, data |-> <<RowValid, RowClean>>,
      message |-> ""],
     [chosen |-> TRUE, readable |-> TRUE, data |-> <<RowValid, RowLat91>>,
      message |-> ""],
     [chosen |-> TRUE, readable |-> TRUE, data |-> <<RowNoDate>>,
      message |-> ""],
     [chosen |-> TRUE, readable |-> TRUE, data |-> <<>>, message |-> ""],
     [chosen |-> TRUE, readable |-> FALSE, data |-> <<>>,
      message |-> NotReadableMessage]}

\* The tabs of the Dashboard.
TabValues == {"upload", "calculate", "results", "map"}

-----------------------------------------------------------------------------
(* The inputs of the classifier *)

\* Values of hpi on and around the thresholds 25, 50, 75 and 100.
HpiGrid ==
    {Num(-1, 1, 0), Zero, Num(249, 1, -1), Num(25, 1, 0), Num(499, 1, -1),
     Num(5, 1, 1), Num(749, 1, -1), Num(75, 1, 0), Num(999, 1, -1),
     Num(1, 1, 2), Num(15, 1, 1), PosInfinity, NaN}

\* Values of pli on and around the thresholds 1, 2, 3 and 5.
PliGrid ==
    {Num(-1, 1, 0), Zero, Num(5, 1, -1), Num(1, 1, 0), Num(15, 1, -1),
     Num(2, 1, 0), Num(25, 1, -1), Num(3, 1, 0), Num(49, 1, -1),
     Num(5, 1, 0), Num(7, 1, 0), PosInfinity, NaN}

-----------------------------------------------------------------------------
(* State *)

VARIABLES
    data,     \* the parsed rows handed to validateData
    today,    \* the current day (UTC) of January 2024
    runs,     \* the calls of validateData(data) so far: [days, out]
    panel,    \* the metals of the sample handed to the index calculator
    hpi,      \* what calculateHPI(panel) returned, or NotRun
    pli,      \* what calculatePLI(panel) returned, or NotRun
    cf,       \* what calculateCF(panel) returned, or NotRun
    graded,   \* the calls of categorizeWaterQuality: [hpi, pli, category]
    heap,     \* the sample objects created so far, by object identity
    samples,  \* the Dashboard's samples: the identities of its objects
    selectedIndices,  \* the checkboxes of the calculation step
    isCalculating,    \* a performCalculations is waiting to finish
    pending,  \* calculatedSamples of the waiting performCalculations
    calcRuns, \* the number of performCalculations started
    rendered, \* the aggregates ResultsVisualization computed of samples
    activeTab,       \* the tab of the Dashboard that is shown
    previewData,     \* DataUpload: the identities of the previewed samples
    errors,          \* DataUpload: the diagnostics shown
    isProcessing,    \* DataUpload: a file is being parsed
    uploadProgress,  \* DataUpload: the progress bar
    parsing,  \* the file Papa.parse is reading for the mounted DataUpload
    inflight, \* the calculatedSamples of the performCalculations that wait
    origin,   \* for every object of heap, the upload its sample came with
    verdicts  \* for every upload processed, what validation said of it

vars ==
    <<data, today, runs, panel, hpi, pli, cf, graded,
      heap, samples, selectedIndices, isCalculating, pending, calcRuns,
      rendered, activeTab, previewData, errors, isProcessing, uploadProgress,
      parsing, inflight, origin, verdicts>>

validatorVars == <<data, today, runs>>

indexVars == <<panel, hpi, pli, cf>>

classifierVars == <<graded>>

engineVars ==
    <<heap, samples, selectedIndices, isCalculating, pending, calcRuns>>

resultsVars == <<rendered>>

uploadVars == <<previewData, errors, isProcessing, uploadProgress, parsing>>

dashboardVars == <<activeTab, uploadVars, inflight, origin, verdicts>>

\* No file is being parsed.
NoFile == [chosen |-> FALSE]

\* The state of a DataUpload that has just mounted (lines 20-23).
UploadMounted ==
    /\ previewData = <<>>
    /\ errors = <<>>
    /\ isProcessing = FALSE
    /\ uploadProgress = 0
    /\ parsing = NoFile

\* The Dashboard on a tab, with no upload made and no calculation waiting.
DashboardAt(tab) ==
    /\ activeTab = tab
    /\ UploadMounted
    /\ inflight = <<>>
    /\ origin = <<>>
    /\ verdicts = <<>>

\* The calculation step before any upload.
EngineIdle ==
    /\ heap = <<>>
    /\ samples = <<>>
    /\ selectedIndices = [hpi |-> TRUE, pli |-> TRUE, cf |-> FALSE]
    /\ isCalculating = FALSE
    /\ pending = <<>>
    /\ calcRuns = 0
    /\ rendered = NotRendered
    /\ DashboardAt("upload")

(* The validator: validateData is called on the same rows up to twice, on  *)
(* the same day or on two days; midnight may also pass during a call.      *)

\* The days on which the callbacks of the n rows of a call can run, when the
\* call starts on day `from`.
Clocks(n, from) ==
    {days \in [1..n -> Days] :
        /\ \A i \in 1..n : days[i] >= from
        /\ \A i, j \in 1..n : i < j => days[i] <= days[j]}

InitValidate ==
    /\ data \in Batches
    /\ today = 30
    /\ runs = <<>>
    /\ panel = <<>>
    /\ hpi = NotRun
    /\ pli = NotRun
    /\ cf = NotRun
    /\ graded = <<>>
    /\ EngineIdle

\* A call validateData(data).
Validate ==
    /\ Len(runs) < 2
    /\ \E days \in Clocks(Len(data), today) :
         /\ runs' = Append(runs, [days |-> days,
                                  out  |-> validateData(data, days)])
         /\ today' = IF Len(days) = 0 THEN today ELSE days[Len(days)]
    /\ UNCHANGED <<data, indexVars, classifierVars, engineVars, resultsVars,
                 dashboardVars>>

\* Midnight (UTC) passes.
Tick ==
    /\ today + 1 \in Days
    /\ today' = today + 1
    /\ UNCHANGED <<data, runs, indexVars, classifierVars, engineVars, resultsVars,
                 dashboardVars>>

NextValidate == Validate \/ Tick

SpecValidate == InitValidate /\ [][NextValidate]_vars

(* The index calculator: calculateHPI, calculatePLI and calculateCF are    *)
(* called on a metals panel.                                               *)

InitIndex ==
    /\ panel \in Panels
    /\ hpi = NotRun
    /\ pli = NotRun
    /\ cf = NotRun
    /\ graded = <<>>
    /\ EngineIdle
    /\ data = <<>>
    /\ today = 30
    /\ runs = <<>>

\* A call calculateHPI(panel).
CallHPI ==
    /\ hpi = NotRun
    /\ hpi' = calculateHPI(panel)
    /\ UNCHANGED <<panel, pli, cf, validatorVars, classifierVars, engineVars, resultsVars,
                 dashboardVars>>

\* A call calculatePLI(panel).
CallPLI ==
    /\ pli = NotRun
    /\ pli' = calculatePLI(panel)
    /\ UNCHANGED <<panel, hpi, cf, validatorVars, classifierVars, engineVars, resultsVars,
                 dashboardVars>>

\* A call calculateCF(panel).
CallCF ==
    /\ cf = NotRun
    /\ cf' = calculateCF(panel)
    /\ UNCHANGED <<panel, hpi, pli, validatorVars, classifierVars, engineVars, resultsVars,
                 dashboardVars>>

NextIndex == CallHPI \/ CallPLI \/ CallCF

SpecIndex == InitIndex /\ [][NextIndex]_vars

(* The classifier: categorizeWaterQuality is called on a pair of the grids, *)
(* and on a second pair to compare with.                                   *)

InitCategory ==
    /\ graded = <<>>
    /\ EngineIdle
    /\ data = <<>>
    /\ today = 30
    /\ runs = <<>>
    /\ panel = <<>>
    /\ hpi = NotRun
    /\ pli = NotRun
    /\ cf = NotRun

\* A call categorizeWaterQuality(h, p).
Categorize ==
    /\ Len(graded) < 2
    /\ \E h \in HpiGrid, p \in PliGrid :
         graded' = Append(graded,
                          [hpi |-> h, pli |-> p,
                           category |-> categorizeWaterQuality(h, p)])
    /\ UNCHANGED <<validatorVars, indexVars, engineVars, resultsVars,
                 dashboardVars>>

NextCategory == Categorize

SpecCategory == InitCategory /\ [][NextCategory]_vars

\* The Dashboard shows a tab: the DataUpload or the CalculationEngine of the
\* tab it leaves unmounts, and the one of the tab it enters mounts with its
\* initial state.  The callbacks of a parse that an unmounted DataUpload
\* started set the state of no mounted component.
ShowTab(tab) ==
    /\ activeTab' = tab
    /\ IF tab = "upload" /\ activeTab = "upload"
       THEN UNCHANGED uploadVars
       ELSE /\ previewData' = <<>>
            /\ errors' = <<>>
            /\ isProcessing' = FALSE
            /\ uploadProgress' = 0
            /\ parsing' = NoFile
    /\ IF tab = "calculate" /\ activeTab = "calculate"
       THEN UNCHANGED <<isCalculating, selectedIndices>>
       ELSE /\ isCalculating' = FALSE
            /\ selectedIndices' = [hpi |-> TRUE, pli |-> TRUE, cf |-> FALSE]

\* Whether a tab can be clicked: the disabled props of the TabsTriggers.
TabEnabled(tab) ==
    CASE tab = "upload"    -> TRUE
      [] tab = "calculate" -> Len(samples) # 0
      [] OTHER -> \E i \in 1..Len(samples) :
                     heap[samples[i]].hmpiResults # NoResults

(* The calculation step: a validated batch is in the Dashboard, which shows *)
(* the Calculate tab; the user toggles the index checkboxes and runs        *)
(* performCalculations, whose result replaces the Dashboard's samples when  *)
(* its delay has passed, the Dashboard going to the results.  The user      *)
(* stays on the tab while a calculation runs, and may come back to the tab  *)
(* from the results for another one.                                        *)

InitEngine ==
    /\ \E batch \in UploadedBatches :
         /\ heap = batch
         /\ samples = [i \in 1..Len(batch) |-> i]
    /\ selectedIndices = [hpi |-> TRUE, pli |-> TRUE, cf |-> FALSE]
    /\ isCalculating = FALSE
    /\ pending = <<>>
    /\ calcRuns = 0
    /\ rendered = NotRendered
    /\ DashboardAt("calculate")
    /\ data = <<>>
    /\ today = 30
    /\ runs = <<>>
    /\ panel = <<>>
    /\ hpi = NotRun
    /\ pli = NotRun
    /\ cf = NotRun
    /\ graded = <<>>

\* handleIndexToggle(indexId, checked)
HandleIndexToggle ==
    /\ activeTab = "calculate"
    /\ \E indexId \in {"hpi", "pli", "cf"}, checked \in BOOLEAN :
         selectedIndices' = [selectedIndices EXCEPT ![indexId] = checked]
    /\ UNCHANGED <<heap, samples, isCalculating, pending, calcRuns>>
    /\ UNCHANGED <<validatorVars, indexVars, classifierVars, resultsVars,
                 dashboardVars>>

\* A calculation that writes the results into the objects of the batch.
PerformCalculationsInPlace ==
    /\ activeTab = "calculate"
    /\ ~isCalculating
    /\ selectedCount(selectedIndices) # 0
    /\ calcRuns < MaxCalcRuns
    /\ heap' = [o \in 1..Len(heap) |->
                    IF \E i \in 1..Len(samples) : samples[i] = o
                    THEN CalculatedSample(heap[o], selectedIndices)
                    ELSE heap[o]]
    /\ pending' = samples
    /\ isCalculating' = TRUE
    /\ calcRuns' = calcRuns + 1
    /\ UNCHANGED <<samples, selectedIndices>>
    /\ UNCHANGED <<validatorVars, indexVars, classifierVars, resultsVars,
                 dashboardVars>>

\* performCalculations up to its await: the button is enabled, samples.map
\* creates the new objects.
PerformCalculations ==
    /\ activeTab = "calculate"
    /\ ~isCalculating
    /\ selectedCount(selectedIndices) # 0
    /\ calcRuns < MaxCalcRuns
    /\ heap' = heap \o calculatedSamples([i \in 1..Len(samples) |->
                                              heap[samples[i]]],
                                          selectedIndices)
    /\ pending' = [i \in 1..Len(samples) |-> Len(heap) + i]
    /\ isCalculating' = TRUE
    /\ calcRuns' = calcRuns + 1
    /\ UNCHANGED <<samples, selectedIndices>>
    /\ UNCHANGED <<validatorVars, indexVars, classifierVars, resultsVars,
                 dashboardVars>>

\* performCalculations after its await: setIsCalculating(false), and
\* onCalculationComplete hands the new objects to the Dashboard
\* (handleCalculationComplete: setSamples, setActiveTab), which shows the
\* results; the CalculationEngine unmounts.
CalculationComplete ==
    /\ activeTab = "calculate"
    /\ isCalculating
    /\ samples' = pending
    /\ pending' = <<>>
    /\ ShowTab("results")
    /\ UNCHANGED <<heap, calcRuns, inflight, origin, verdicts>>
    /\ UNCHANGED <<validatorVars, indexVars, classifierVars, resultsVars>>

\* A click on the Calculate tab from the results, where the tab is enabled
\* (onValueChange = setActiveTab): the CalculationEngine mounts anew.
OpenCalculate ==
    /\ activeTab = "results"
    /\ TabEnabled("calculate")
    /\ ShowTab("calculate")
    /\ UNCHANGED <<heap, samples, pending, calcRuns, inflight, origin, verdicts>>
    /\ UNCHANGED <<validatorVars, indexVars, classifierVars, resultsVars>>

NextEngine ==
    \/ HandleIndexToggle
    \/ PerformCalculations
    \/ CalculationComplete
    \/ OpenCalculate

SpecEngine == InitEngine /\ [][NextEngine]_vars

(* The results view: ResultsVisualization renders a batch, of which some   *)
(* samples carry results and some do not.                                  *)

InitResults ==
    /\ \/ \E sizes \in Compositions, reversed \in BOOLEAN :
            heap = BatchOf(sizes, reversed)
       \/ heap \in ShortBatches
    /\ samples = [i \in 1..Len(heap) |-> i]
    /\ rendered = NotRendered
    /\ DashboardAt("results")
    /\ selectedIndices = [hpi |-> TRUE, pli |-> TRUE, cf |-> FALSE]
    /\ isCalculating = FALSE
    /\ pending = <<>>
    /\ calcRuns = 0
    /\ data = <<>>
    /\ today = 30
    /\ runs = <<>>
    /\ panel = <<>>
    /\ hpi = NotRun
    /\ pli = NotRun
    /\ cf = NotRun
    /\ graded = <<>>

\* ResultsVisualization renders samples: its memoized aggregates.
Render ==
    /\ ~rendered.done
    /\ LET batch == [i \in 1..Len(samples) |-> heap[samples[i]]]
       IN  rendered' =
               [done                   |-> TRUE,
                statisticsData         |-> statisticsData(batch),
                qualityDistribution    |-> qualityDistribution(batch),
                metalContributionData  |-> metalContributionData(batch),
                tableRows              |-> tableRows(batch),
                view                   |->
                    IF Len(processedSamples(batch)) = 0
                    THEN "No calculation results available"
                    ELSE "results"]
    /\ UNCHANGED <<validatorVars, indexVars, classifierVars, engineVars,
                 dashboardVars>>

NextResults == Render

SpecResults == InitResults /\ [][NextResults]_vars

(* The table of the results view, on samples whose metals tie.             *)

InitPollutants ==
    /\ \E c \in TiedLevels : heap = TiedBatch(c)
    /\ samples = <<1>>
    /\ rendered = NotRendered
    /\ DashboardAt("results")
    /\ selectedIndices = [hpi |-> TRUE, pli |-> TRUE, cf |-> FALSE]
    /\ isCalculating = FALSE
    /\ pending = <<>>
    /\ calcRuns = 0
    /\ data = <<>>
    /\ today = 30
    /\ runs = <<>>
    /\ panel = <<>>
    /\ hpi = NotRun
    /\ pli = NotRun
    /\ cf = NotRun
    /\ graded = <<>>

SpecPollutants == InitPollutants /\ [][NextResults]_vars

(* The Dashboard: the user uploads files, confirms a preview, runs the     *)
(* calculation and clicks the tabs.  Only the content of the active tab is *)
(* mounted: the state of DataUpload and of CalculationEngine is lost when  *)
(* the Dashboard leaves their tab, while a parse or a calculation they     *)
(* started goes on.  The checkboxes of the calculation step keep their    *)
(* initial selection.                                                      *)

InitDashboard ==
    /\ EngineIdle
    /\ data = <<>>
    /\ today = 30
    /\ runs = <<>>
    /\ panel = <<>>
    /\ hpi = NotRun
    /\ pli = NotRun
    /\ cf = NotRun
    /\ graded = <<>>

\* A click on any tab, enabled or not.
SelectTabUnguarded ==
    /\ \E tab \in TabValues :
         /\ tab # activeTab
         /\ ShowTab(tab)
    /\ UNCHANGED <<heap, samples, pending, calcRuns, inflight, origin, verdicts>>
    /\ UNCHANGED <<validatorVars, indexVars, classifierVars, resultsVars>>

\* A click on a tab that is enabled: onValueChange = setActiveTab.
SelectTab ==
    /\ \E tab \in TabValues :
         /\ tab # activeTab
         /\ TabEnabled(tab)
         /\ ShowTab(tab)
    /\ UNCHANGED <<heap, samples, pending, calcRuns, inflight, origin, verdicts>>
    /\ UNCHANGED <<validatorVars, indexVars, classifierVars, resultsVars>>

\* handleFileUpload up to Papa.parse: the input is enabled and the user chose
\* a file.
HandleFileUpload ==
    /\ activeTab = "upload"
    /\ ~isProcessing
    /\ Len(verdicts) < MaxUploads
    /\ \E file \in Files : parsing' = file
    /\ isProcessing' = TRUE
    /\ uploadProgress' = 0
    /\ errors' = <<>>
    /\ UNCHANGED <<previewData, activeTab, inflight, origin, verdicts>>
    /\ UNCHANGED <<validatorVars, indexVars, classifierVars, engineVars,
                   resultsVars>>

\* A complete callback that previews the samples of the rows that passed,
\* whatever the diagnostics.
ParseCompleteAcceptingPartial ==
    /\ parsing # NoFile
    /\ parsing.readable
    /\ \E validation \in {validateData(parsing.data,
                                       [k \in 1..Len(parsing.data) |-> today])} :
       \E created \in {[i \in 1..Len(validation.samples) |->
                           WaterSample(validation.samples[i])]} :
       LET upload == Len(verdicts) + 1
       IN  /\ heap' = heap \o created
           /\ origin' = origin \o [i \in 1..Len(created) |-> upload]
           /\ verdicts' = Append(verdicts,
                                 [isValid |-> validation.isValid,
                                  errors  |-> validation.errors,
                                  samples |-> [i \in 1..Len(created) |->
                                                  Len(heap) + i]])
           /\ previewData' = [i \in 1..Len(created) |-> Len(heap) + i]
           /\ uploadProgress' = 100
           /\ errors' = validation.errors
    /\ isProcessing' = FALSE
    /\ parsing' = NoFile
    /\ UNCHANGED <<activeTab, inflight>>
    /\ UNCHANGED <<samples, selectedIndices, isCalculating, pending, calcRuns>>
    /\ UNCHANGED <<validatorVars, indexVars, classifierVars, resultsVars>>

\* The complete callback of Papa.parse: validateData creates the samples of
\* the rows that pass; they are previewed when there is no diagnostic, and
\* the diagnostics are shown otherwise.
ParseComplete ==
    /\ parsing # NoFile
    /\ parsing.readable
    /\ \E validation \in {validateData(parsing.data,
                                       [k \in 1..Len(parsing.data) |-> today])} :
       \E created \in {[i \in 1..Len(validation.samples) |->
                           WaterSample(validation.samples[i])]} :
       LET upload == Len(verdicts) + 1
       IN  /\ heap' = heap \o created
           /\ origin' = origin \o [i \in 1..Len(created) |-> upload]
           /\ verdicts' = Append(verdicts,
                                 [isValid |-> validation.isValid,
                                  errors  |-> validation.errors,
                                  samples |-> [i \in 1..Len(created) |->
                                                  Len(heap) + i]])
           /\ IF validation.isValid
              THEN /\ previewData' = [i \in 1..Len(created) |-> Len(heap) + i]
                   /\ uploadProgress' = 100
                   /\ UNCHANGED errors
              ELSE /\ errors' = validation.errors
                   /\ uploadProgress' = 50
                   /\ UNCHANGED previewData
    /\ isProcessing' = FALSE
    /\ parsing' = NoFile
    /\ UNCHANGED <<activeTab, inflight>>
    /\ UNCHANGED <<samples, selectedIndices, isCalculating, pending, calcRuns>>
    /\ UNCHANGED <<validatorVars, indexVars, classifierVars, resultsVars>>

\* `File parsing error: ${error.message}`
ParsingError(message) ==
    Diagnostic("File parsing error: " \o message, "", 0, <<>>)

\* The error callback of Papa.parse.
ParseError ==
    /\ parsing # NoFile
    /\ ~parsing.readable
    /\ errors' = <<ParsingError(parsing.message)>>
    /\ verdicts' = Append(verdicts,
                          [isValid |-> FALSE, errors |-> errors',
                           samples |-> <<>>])
    /\ isProcessing' = FALSE
    /\ parsing' = NoFile
    /\ UNCHANGED <<previewData, uploadProgress, activeTab, inflight, origin>>
    /\ UNCHANGED <<validatorVars, indexVars, classifierVars, engineVars,
                   resultsVars>>

\* handleConfirmUpload, of the button shown with a preview: onDataUploaded is
\* handleDataUploaded of the Dashboard (setSamples, setActiveTab).
HandleConfirmUpload ==
    /\ activeTab = "upload"
    /\ Len(previewData) > 0
    /\ samples' = previewData
    /\ ShowTab("calculate")
    /\ UNCHANGED <<heap, pending, calcRuns, inflight, origin, verdicts>>
    /\ UNCHANGED <<validatorVars, indexVars, classifierVars, resultsVars>>

\* clearData, of the button shown with a preview.
ClearData ==
    /\ activeTab = "upload"
    /\ Len(previewData) > 0
    /\ previewData' = <<>>
    /\ errors' = <<>>
    /\ uploadProgress' = 0
    /\ UNCHANGED <<isProcessing, parsing, activeTab, inflight, origin, verdicts>>
    /\ UNCHANGED <<validatorVars, indexVars, classifierVars, engineVars,
                   resultsVars>>

\* performCalculations of the mounted CalculationEngine up to its await.
StartCalculations ==
    /\ activeTab = "calculate"
    /\ ~isCalculating
    /\ selectedCount(selectedIndices) # 0
    /\ calcRuns < MaxCalcRuns
    /\ heap' = heap \o calculatedSamples([i \in 1..Len(samples) |->
                                              heap[samples[i]]],
                                          selectedIndices)
    /\ origin' = origin \o [i \in 1..Len(samples) |-> origin[samples[i]]]
    /\ inflight' = Append(inflight,
                          [i \in 1..Len(samples) |-> Len(heap) + i])
    /\ isCalculating' = TRUE
    /\ calcRuns' = calcRuns + 1
    /\ UNCHANGED <<samples, selectedIndices, pending>>
    /\ UNCHANGED <<activeTab, uploadVars, verdicts>>
    /\ UNCHANGED <<validatorVars, indexVars, classifierVars, resultsVars>>

\* performCalculations after its await, of the oldest run that waits (every
\* run waits the same time): onCalculationComplete is
\* handleCalculationComplete of the Dashboard (setSamples, setActiveTab),
\* whether or not the CalculationEngine that started the run is still
\* mounted.
FinishCalculations ==
    /\ Len(inflight) > 0
    /\ inflight' = Tail(inflight)
    /\ samples' = inflight[1]
    /\ ShowTab("results")
    /\ UNCHANGED <<heap, pending, calcRuns, origin, verdicts>>
    /\ UNCHANGED <<validatorVars, indexVars, classifierVars, resultsVars>>

NextDashboard ==
    \/ SelectTab
    \/ HandleFileUpload
    \/ ParseComplete
    \/ ParseError
    \/ HandleConfirmUpload
    \/ ClearData
    \/ StartCalculations
    \/ FinishCalculations

SpecDashboard == InitDashboard /\ [][NextDashboard]_vars

-----------------------------------------------------------------------------
(* Claims about the validator *)

\* x <= y of JavaScript.
Le(x, y) == ~IsNaN(x) /\ ~IsNaN(y) /\ ~Lt(y, x)

\* |x| for a number x.
AbsNum(x) == IF IsNaN(x) THEN NaN ELSE [x EXCEPT !.s = 1]

\* The results validateData has returned on data.
RunOuts == {runs[i].out : i \in 1..Len(runs)}

\* The fields validateData checks in a row, in the order it checks them.
CheckedFields == <<"latitude", "longitude">> \o metals

\* The check of field f fails on row.
FieldFails(row, f) ==
    IF f = "latitude" THEN BadLatitude(parseFloat(Get(row, f)))
    ELSE IF f = "longitude" THEN BadLongitude(parseFloat(Get(row, f)))
    ELSE BadConcentration(parseFloat(Get(row, f)))

\* The fields of each row of the pool whose check fails, in check order.
FailingFieldsOf ==
    [row \in RowPool |-> SelectSeq(CheckedFields, LAMBDA f : FieldFails(row, f))]

FailingFields(row) == FailingFieldsOf[row]

RowPasses(row) == FailingFields(row) = <<>>

\* The samples of out whose id is that of row k.
SamplesOfRow(out, k) ==
    {j \in 1..Len(out.samples) : out.samples[j].id = SampleId(k)}

\* The diagnostics of out that name row k.
DiagnosticsOfRow(out, k) ==
    {j \in 1..Len(out.errors) : out.errors[j].row = k}

\* C1: a row is accepted into samples if and only if it produced no
\* diagnostic, which is exactly when its latitude, its longitude and its 9
\* metal fields each passed their check; a row with a failing field
\* contributes no sample.
C1_AcceptedIffNoDiagnostic ==
    LET passes == [k \in 1..Len(data) |-> RowPasses(data[k])]
    IN  \A out \in RunOuts :
            /\ \A k \in 1..Len(data) :
                 /\ (SamplesOfRow(out, k) # {})
                      <=> (DiagnosticsOfRow(out, k) = {})
                 /\ (SamplesOfRow(out, k) # {}) <=> passes[k]
                 /\ Cardinality(SamplesOfRow(out, k)) <= 1
            /\ Len(out.samples) =
                 Cardinality({r \in 1..Len(data) : passes[r]})

\* A batch with an accepted row and a row rejected for one failing field.
C1_Witness ==
    \E out \in RunOuts : \E k, r \in 1..Len(data) :
        /\ SamplesOfRow(out, k) # {}
        /\ Len(FailingFields(data[r])) = 1
        /\ SamplesOfRow(out, r) = {}

\* The 1-based positions of the rows of d that pass, in increasing order.
AcceptedRows(d) ==
    SelectSeq([k \in 1..Len(d) |-> k], LAMBDA k : RowPasses(d[k]))

\* C2: the id of every accepted sample is sample_<k> for the 1-based position
\* k of its row in the input, not its position among the accepted rows; the
\* ids of a batch are distinct and increase along samples.
C2_IdIsInputPosition ==
    LET accepted == AcceptedRows(data)
    IN  \A out \in RunOuts :
            /\ Len(out.samples) = Len(accepted)
            /\ \A j \in 1..Len(out.samples) :
                 /\ out.samples[j].id =
                      <<"s", "a", "m", "p", "l", "e", "_">>
                          \o IntToChars(accepted[j])
                 /\ out.samples[j].latitude =
                      parseFloat(Get(data[accepted[j]], "latitude"))
                 /\ out.samples[j].metals = MetalValues(data[accepted[j]], 1)
            /\ \A i, j \in 1..Len(out.samples) :
                 i # j => out.samples[i].id # out.samples[j].id
            /\ \A i, j \in 1..Len(accepted) : i < j => accepted[i] < accepted[j]

\* Rows [valid, invalid, valid] were validated: the ids are sample_1 and
\* sample_3.
C2_Witness ==
    /\ Len(data) = 3
    /\ RowPasses(data[1]) /\ ~RowPasses(data[2]) /\ RowPasses(data[3])
    /\ \E out \in RunOuts :
         /\ Len(out.samples) = 2
         /\ out.samples[1].id = <<"s", "a", "m", "p", "l", "e", "_", "1">>
         /\ out.samples[2].id = <<"s", "a", "m", "p", "l", "e", "_", "3">>

\* The rows of data whose latitude reads as 91.
Lat91Rows ==
    {k \in 1..Len(data) :
        parseFloat(Get(data[k], "latitude")) = Int2Num(91)}

\* C3: a row with latitude 91 is absent from samples and a diagnostic names
\* its 1-based index; every other row of the batch that is itself valid is
\* still in samples.
C3_RowExclusion ==
    \A out \in RunOuts : \A k \in Lat91Rows :
        /\ SamplesOfRow(out, k) = {}
        /\ \E j \in DiagnosticsOfRow(out, k) :
             out.errors[j].field = "latitude"
        /\ \A r \in 1..Len(data) :
             (r # k /\ RowPasses(data[r])) => SamplesOfRow(out, r) # {}

\* A batch with a latitude-91 row and a valid row was validated.
C3_Witness ==
    \E out \in RunOuts : \E k \in Lat91Rows : \E r \in 1..Len(data) :
        /\ r # k
        /\ RowPasses(data[r])
        /\ SamplesOfRow(out, r) # {}
        /\ SamplesOfRow(out, k) = {}

\* lo <= x <= hi, for a number x.
Within(x, lo, hi) ==
    /\ ~IsNaN(x)
    /\ ~Lt(x, Int2Num(lo))
    /\ ~Gt(x, Int2Num(hi))

\* C4: every sample validateData returns has its latitude in [-90, 90], its
\* longitude in [-180, 180] and a metals panel with the 9 keys As, Cd, Cr,
\* Cu, Fe, Mn, Ni, Pb, Zn, each with a value >= 0 that is the value read from
\* the row (none is defaulted).
C4_SampleInvariants ==
    \A out \in RunOuts : \A j \in 1..Len(out.samples) :
        LET s == out.samples[j]
        IN  /\ Within(s.latitude, -90, 90)
            /\ Within(s.longitude, -180, 180)
            /\ Len(s.metals) = 9
            /\ \A m \in 1..9 :
                 /\ s.metals[m].metal = metals[m]
                 /\ ~IsNaN(s.metals[m].concentration)
                 /\ ~Lt(s.metals[m].concentration, Zero)
                 /\ \E k \in 1..Len(data) :
                      /\ s.id = SampleId(k)
                      /\ s.metals[m].concentration =
                           parseFloat(Get(data[k], metals[m]))

\* A sample on the bounds of the ranges (latitude 90, longitude -180, a
\* concentration 0) was returned.
C4_Witness ==
    \E out \in RunOuts : \E j \in 1..Len(out.samples) :
        /\ out.samples[j].latitude = Int2Num(90)
        /\ out.samples[j].longitude = Int2Num(-180)
        /\ \E m \in 1..9 : out.samples[j].metals[m].concentration = Zero

\* C5: on an empty row sequence validateData returns no sample and exactly
\* one diagnostic, the "no data" one (no column or row diagnostic), and
\* reports the batch as invalid.
C5_EmptyInput ==
    \A out \in RunOuts :
        Len(data) = 0 =>
            /\ out.samples = <<>>
            /\ Len(out.errors) = 1
            /\ out.errors[1].msg = "No data found in the uploaded file"
            /\ out.isValid = FALSE

\* validateData was called on the empty row sequence.
C5_Witness == Len(data) = 0 /\ RunOuts # {}

\* The missing-column diagnostics of out.
MissingColumnDiagnostics(out) ==
    {j \in 1..Len(out.errors) :
        out.errors[j].msg = "Missing required columns: "}

\* C6: the missing-column check reads the keys of the first row only and
\* appends at most one diagnostic, which names all the required columns the
\* first row lacks; it is not fatal: every row that passes is still in
\* samples.
C6_MissingColumnsNonFatal ==
    \A out \in RunOuts :
        Len(data) > 0 =>
            LET missing == SelectSeq(requiredColumns,
                                     LAMBDA c : c \notin DOMAIN data[1])
            IN  /\ Cardinality(MissingColumnDiagnostics(out)) <= 1
                /\ (MissingColumnDiagnostics(out) # {}) <=> (missing # <<>>)
                /\ \A j \in MissingColumnDiagnostics(out) :
                     out.errors[j].cols = missing
                /\ \A k \in 1..Len(data) :
                     RowPasses(data[k]) => SamplesOfRow(out, k) # {}

\* A result with a missing-column diagnostic and an accepted sample, from a
\* batch whose first row lacks only sampleDate.
C6_Witness ==
    \E out \in RunOuts :
        /\ MissingColumnDiagnostics(out) # {}
        /\ out.samples # <<>>
        /\ "sampleDate" \notin DOMAIN data[1]
        /\ SamplesOfRow(out, 1) # {}

\* The position of field f in the order of the checks.
FieldRank(f) == CHOOSE j \in 1..Len(CheckedFields) : CheckedFields[j] = f

\* C7: diagnostics are per failing field and in input order: the
\* missing-column diagnostic (if any) is first; every failing field of every
\* row has exactly one diagnostic naming the row; the row diagnostics are in
\* increasing row order and, within a row, in the order latitude, longitude,
\* As, Cd, Cr, Cu, Fe, Mn, Ni, Pb, Zn; samples are in row order.
C7_DiagnosticsInOrder ==
    \A out \in RunOuts :
        Len(data) > 0 =>
            /\ \A j \in MissingColumnDiagnostics(out) : j = 1
            /\ \A k \in 1..Len(data) : \A f \in 1..Len(CheckedFields) :
                 Cardinality({j \in DiagnosticsOfRow(out, k) :
                                out.errors[j].field = CheckedFields[f]})
                   = IF \E g \in 1..Len(FailingFields(data[k])) :
                           FailingFields(data[k])[g] = CheckedFields[f]
                     THEN 1 ELSE 0
            /\ \A j \in 1..Len(out.errors) :
                 j \in MissingColumnDiagnostics(out)
                   \/ out.errors[j].row \in 1..Len(data)
            /\ \A i, j \in 1..Len(out.errors) :
                 (i < j /\ i \notin MissingColumnDiagnostics(out)) =>
                    \/ out.errors[i].row < out.errors[j].row
                    \/ /\ out.errors[i].row = out.errors[j].row
                       /\ FieldRank(out.errors[i].field)
                            < FieldRank(out.errors[j].field)
            /\ \A i, j \in 1..Len(out.samples) :
                 i < j =>
                    \E k, r \in 1..Len(data) :
                        /\ k < r
                        /\ out.samples[i].id = SampleId(k)
                        /\ out.samples[j].id = SampleId(r)

\* A result with a missing-column diagnostic, a row with several diagnostics
\* and diagnostics of two rows.
C7_Witness ==
    \E out \in RunOuts :
        /\ MissingColumnDiagnostics(out) # {}
        /\ \E k, r \in 1..Len(data) :
             /\ k # r
             /\ Cardinality(DiagnosticsOfRow(out, k)) >= 3
             /\ DiagnosticsOfRow(out, r) # {}

\* The row supplies a sample date (row.sampleDate is a non-empty string).
HasSampleDate(row) == Get(row, "sampleDate") \notin {Undefined, <<>>}

\* C8 as stated: two runs of validateData on the same rows return identical
\* output, sampleDate included, also for rows whose sampleDate is empty or
\* absent.
C8_IdenticalOutput ==
    Len(runs) = 2 => runs[1].out = runs[2].out

\* C8: two runs of validateData on the same rows return the same verdict, the
\* same diagnostics and the same samples in the same order with the same ids,
\* coordinates and metals, and the same sampleDate for every row that
\* supplies one; a row whose sampleDate is empty or absent reads the clock
\* when it is processed, so its two sampleDates agree exactly when the row
\* was processed on the same UTC day in both runs, and two runs whose rows
\* were processed on the same days return identical output.
C8_DeterministicUpToDefaultDate ==
    Len(runs) = 2 =>
        LET a == runs[1].out
            b == runs[2].out
        IN  /\ a.isValid = b.isValid
            /\ a.errors = b.errors
            /\ Len(a.samples) = Len(b.samples)
            /\ \A j \in 1..Len(a.samples) :
                 /\ a.samples[j].id = b.samples[j].id
                 /\ a.samples[j].latitude = b.samples[j].latitude
                 /\ a.samples[j].longitude = b.samples[j].longitude
                 /\ a.samples[j].metals = b.samples[j].metals
                 /\ \A k \in 1..Len(data) :
                      a.samples[j].id = SampleId(k) =>
                        IF HasSampleDate(data[k])
                        THEN /\ a.samples[j].sampleDate = data[k].sampleDate
                             /\ b.samples[j].sampleDate = data[k].sampleDate
                        ELSE (a.samples[j].sampleDate = b.samples[j].sampleDate)
                                <=> (runs[1].days[k] = runs[2].days[k])
            /\ runs[1].days = runs[2].days => a = b

\* Two runs of a batch with an accepted row that supplies its date and two
\* accepted rows that do not, midnight passing between these two in the
\* second run: the first row keeps its date in both runs, the second has the
\* date of the 30th in both, the third that of the 30th and then of the 31st.
C8_Witness ==
    /\ Len(runs) = 2
    /\ Len(runs[1].out.samples) = 3
    /\ \E i, j, l \in 1..3 :
         /\ HasSampleDate(data[i])
         /\ runs[1].out.samples[i].sampleDate = runs[2].out.samples[i].sampleDate
         /\ ~HasSampleDate(data[j])
         /\ runs[1].out.samples[j].sampleDate = IsoDate(30)
         /\ runs[2].out.samples[j].sampleDate = IsoDate(30)
         /\ runs[1].out.samples[l].sampleDate =
              <<"2", "0", "2", "4", "-", "0", "1", "-", "3", "0">>
         /\ runs[2].out.samples[l].sampleDate =
              <<"2", "0", "2", "4", "-", "0", "1", "-", "3", "1">>

-----------------------------------------------------------------------------
(* Claims about the index calculator *)

\* The panel with every concentration at k times its WHO standard.
Uniform(k) == PanelOf(k, k, k, k)

\* The panel {As: 0.02, Cd: 0.006, Cr: 0.1, Cu: 4.0, Fe: 0.6, Mn: 0.2,
\* Ni: 0.14, Pb: 0.02, Zn: 6.0}.
DoubledPanel ==
    <<[metal |-> "As", concentration |-> Num(2, 1, -2)],
      [metal |-> "Cd", concentration |-> Num(6, 1, -3)],
      [metal |-> "Cr", concentration |-> Num(1, 1, -1)],
      [metal |-> "Cu", concentration |-> Num(4, 1, 0)],
      [metal |-> "Fe", concentration |-> Num(6, 1, -1)],
      [metal |-> "Mn", concentration |-> Num(2, 1, -1)],
      [metal |-> "Ni", concentration |-> Num(14, 1, -2)],
      [metal |-> "Pb", concentration |-> Num(2, 1, -2)],
      [metal |-> "Zn", concentration |-> Num(6, 1, 0)]>>

\* The panel at each level times every standard.
UniformPanel == [k \in Levels |-> Uniform(k)]

\* The multiples of the standards at which both rules of C9 hold.
SmallLevels == {Zero, Num(1, 1, 0), Num(2, 1, 0)}

\* C9 as stated: on the panel at k times every standard calculateHPI returns
\* 100 * k and calculatePLI returns k, for every k.
C9_EveryMultiple ==
    \A k \in Levels :
        panel = UniformPanel[k] =>
            /\ hpi # NotRun => hpi = Mul(Int2Num(100), k)
            /\ pli # NotRun => pli = k

\* C9: on the panel at double every WHO standard calculateHPI returns exactly
\* 200 and calculatePLI exactly 2; on the panels at 0 and 1 times every
\* standard they return 0 and 0, and 100 and 1.  The rules HPI = 100 * k and
\* PLI = k do not extend to every k: at 100 times every standard HPI is
\* 10000 but Math.pow(10^18, 1 / 9) is 99.99999999999997, because 1 / 9 is
\* not a double; at 10^200 times every standard HPI is
\* 1.0000000000000001 * 10^202 and the product of the contamination factors
\* overflows, so that calculatePLI returns Infinity.
C9_KnownValues ==
    /\ panel = DoubledPanel =>
         /\ hpi # NotRun => hpi = Int2Num(200)
         /\ pli # NotRun => pli = Int2Num(2)
    /\ \A k \in SmallLevels :
         panel = UniformPanel[k] =>
            /\ hpi # NotRun => hpi = Mul(Int2Num(100), k)
            /\ pli # NotRun => pli = k
    /\ panel = UniformPanel[Num(1, 1, 2)] =>
         /\ hpi # NotRun => hpi = Int2Num(10000)
         /\ pli # NotRun =>
              pli = parseFloat(<<"9", "9", ".", "9", "9", "9", "9", "9", "9",
                                 "9", "9", "9", "9", "9", "9", "9", "7">>)
    /\ panel = UniformPanel[Num(1, 1, 200)] =>
         /\ hpi # NotRun =>
              hpi = parseFloat(<<"1", ".", "0", "0", "0", "0", "0", "0", "0",
                                 "0", "0", "0", "0", "0", "0", "0", "0", "1",
                                 "e", "2", "0", "2">>)
         /\ pli # NotRun => pli = PosInfinity

\* Both indices of the doubled panel were computed.
C9_Witness ==
    /\ panel = DoubledPanel
    /\ hpi = Int2Num(200)
    /\ pli = Int2Num(2)

\* C10 as stated: on a panel with a concentration 0 for a metal that has a
\* standard, calculatePLI returns 0 whatever the other concentrations are.
C10_ZeroCollapsesPLI ==
    (pli # NotRun
       /\ \E j \in 1..Len(panel) :
            /\ HasKey(WHO_STANDARDS, panel[j].metal)
            /\ IsZero(panel[j].concentration))
      => pli = Zero

\* The entries of a panel whose metal has a reference standard.
Matched(p) == SelectSeq(p, LAMBDA entry : HasKey(WHO_STANDARDS, entry.metal))

\* The symbols of chemical elements among the keys of the panels: the 9
\* metals with a reference standard and mercury, which has none.
MetalSymbols == StandardMetals \cup {"Hg"}

\* Every key of the panel is a metal symbol.
IsMetalPanel(p) == \A j \in 1..Len(p) : p[j].metal \in MetalSymbols

\* C11: on a panel whose keys are metal symbols calculateHPI, calculatePLI
\* and calculateCF skip every metal that has no entry in the reference
\* standards (the result is that of the panel without those metals, so that
\* such a metal adds to neither the sum or product nor the count or weight)
\* and return 0 when no metal of the panel has one, the empty panel
\* included.  (A key that is no metal symbol but names a property every
\* object inherits reads a function from the tables and is not skipped; no
\* panel validateData builds has such a key.)
C11_SkipsUnmatchedMetals ==
    IsMetalPanel(panel) =>
        /\ hpi # NotRun =>
             /\ hpi = calculateHPI(Matched(panel))
             /\ Matched(panel) = <<>> => hpi = Zero
        /\ pli # NotRun =>
             /\ pli = calculatePLI(Matched(panel))
             /\ Matched(panel) = <<>> => pli = Zero
        /\ cf # NotRun =>
             /\ cf = calculateCF(Matched(panel))
             /\ Matched(panel) = <<>> => cf = Zero

\* The three indices of the panel {Hg: 1, As: 0.02} were computed: Hg is
\* skipped, HPI = 200, PLI = 2 and CF = 2 are those of {As: 0.02}.
C11_Witness ==
    /\ panel = <<[metal |-> "Hg", concentration |-> Num(1, 1, 0)],
                 [metal |-> "As", concentration |-> Num(2, 1, -2)]>>
    /\ hpi = Int2Num(200)
    /\ pli = Int2Num(2)
    /\ cf = Int2Num(2)

\* The panel holds a key that names a property every object inherits.
HasInheritedKey(p) == \E j \in 1..Len(p) : p[j].metal \in ObjectPrototypeKeys

\* concentration / standard of the matched entries of a panel, in panel order.
Factors(p) ==
    [j \in 1..Len(Matched(p)) |->
        Div(Matched(p)[j].concentration, WHO_STANDARDS[Matched(p)[j].metal])]

\* The sum of a sequence of numbers, added from the left.
RECURSIVE SumOf(_)
SumOf(xs) ==
    IF Len(xs) = 0 THEN Zero
    ELSE Add(SumOf(SubSeq(xs, 1, Len(xs) - 1)), xs[Len(xs)])

\* 2^-48, which bounds the relative rounding of the two means of up to 9
\* factors.
MeanTolerance ==
    Div(Int2Num(1), Mul(Int2Num(Pow2(24)), Int2Num(Pow2(24))))

\* 64 * 2^-1074, which bounds the rounding of a mean to a multiple of
\* 2^-1074 (half of 2^-1074 for each mean, that of CF taken 100 times).
MeanUnderflow == Mul(Int2Num(64), MinValue)

\* C12 as stated, already on the panels without an inherited key: with the
\* shipped unit weights calculateHPI(panel) equals 100 times
\* calculateCF(panel) for every panel.
C12_HPIIsHundredTimesCF ==
    (hpi # NotRun /\ cf # NotRun /\ ~HasInheritedKey(panel))
        => hpi = Mul(Int2Num(100), cf)

\* C12: on a panel without an inherited key calculateCF returns the
\* arithmetic mean of concentration/standard over the matched metals and
\* calculateHPI the weighted mean of 100 * concentration/standard (0 for both
\* when nothing matches), every quotient, product and sum rounded to a
\* double and the sums added in panel order.  HPI is then 100 * CF up to
\* this rounding only: when HPI and 100 * CF are finite they differ by at
\* most 2^-48 of |HPI| plus 64 * 2^-1074, and otherwise HPI or 100 * CF is
\* Infinity, where HPI can be Infinity with a finite CF.  On a panel with
\* an inherited key calculateHPI returns 0 and calculateCF NaN.
C12_MeansOfFactors ==
    LET f       == Factors(panel)
        subs    == [j \in 1..Len(f) |-> Mul(Int2Num(100), f[j])]
        hundred == Mul(Int2Num(100), cf)
    IN  IF HasInheritedKey(panel)
        THEN /\ hpi # NotRun => hpi = Zero
             /\ cf # NotRun => IsNaN(cf)
        ELSE /\ cf # NotRun =>
                  cf = IF Len(f) = 0 THEN Zero
                       ELSE Div(SumOf(f), Int2Num(Len(f)))
             /\ hpi # NotRun =>
                  hpi = IF Len(f) = 0 THEN Zero
                        ELSE Div(SumOf(subs), Int2Num(Len(f)))
             /\ (hpi # NotRun /\ cf # NotRun) =>
                  IF hpi.k = "fin" /\ hundred.k = "fin"
                  THEN Le(AbsNum(Sub(hpi, hundred)),
                          Add(Mul(AbsNum(hpi), MeanTolerance), MeanUnderflow))
                  ELSE hpi = PosInfinity \/ hundred = PosInfinity

\* Both means of the panel with As at 2^-1074 and the 8 other metals at 0
\* were computed: HPI = 1111 * 2^-1074 and CF = 11 * 2^-1074, so that
\* 100 * CF = 1100 * 2^-1074 is 11 * 2^-1074 from HPI.
C12_Witness ==
    /\ panel = PanelOf(Mul(Int2Num(100), MinValue), Zero, Zero, Zero)
    /\ panel[1].concentration = MinValue
    /\ hpi = Mul(Int2Num(1111), MinValue)
    /\ cf = Mul(Int2Num(11), MinValue)

-----------------------------------------------------------------------------
(* Claims about the classifier *)

\* The place of a category in excellent < good < moderate < poor < unsuitable.
Severity(category) ==
    CASE category = "excellent"  -> 1
      [] category = "good"       -> 2
      [] category = "moderate"   -> 3
      [] category = "poor"       -> 4
      [] category = "unsuitable" -> 5

\* The band a value alone falls in under four increasing thresholds, each a
\* strict upper bound.
Band(x, t1, t2, t3, t4) ==
    IF Lt(x, Int2Num(t1)) THEN 1
    ELSE IF Lt(x, Int2Num(t2)) THEN 2
    ELSE IF Lt(x, Int2Num(t3)) THEN 3
    ELSE IF Lt(x, Int2Num(t4)) THEN 4
    ELSE 5

\* x >= 0 of JavaScript.
NonNegative(x) == ~IsNaN(x) /\ ~Lt(x, Zero)

\* C13: for all hpi, pli >= 0 the category is the worse of the band hpi alone
\* falls in under the thresholds 25/50/75/100 and the band pli alone falls in
\* under the thresholds 1/2/3/5, each threshold a strict upper bound.
C13_WorseMetricDominates ==
    \A i \in 1..Len(graded) :
        (NonNegative(graded[i].hpi) /\ NonNegative(graded[i].pli)) =>
            LET hpiBand == Band(graded[i].hpi, 25, 50, 75, 100)
                pliBand == Band(graded[i].pli, 1, 2, 3, 5)
            IN  Severity(graded[i].category) =
                    IF hpiBand > pliBand THEN hpiBand ELSE pliBand

\* A pair was classified whose hpi alone is excellent and whose pli alone is
\* moderate, and a pair whose hpi alone is poor and whose pli alone is good.
C13_Witness ==
    /\ Len(graded) = 2
    /\ graded[1].hpi = Num(249, 1, -1) /\ graded[1].pli = Num(25, 1, -1)
    /\ graded[1].category = "moderate"
    /\ graded[2].hpi = Num(75, 1, 0) /\ graded[2].pli = Num(15, 1, -1)
    /\ graded[2].category = "poor"

\* C14: for hpi1 <= hpi2 and pli1 <= pli2 the category of (hpi2, pli2) is the
\* same as or worse than the category of (hpi1, pli1).
C14_Monotone ==
    \A i, j \in 1..Len(graded) :
        (Le(graded[i].hpi, graded[j].hpi) /\ Le(graded[i].pli, graded[j].pli))
            => Severity(graded[i].category) <= Severity(graded[j].category)

\* Two pairs were classified, the second larger in both indices and in a
\* worse category.
C14_Witness ==
    /\ Len(graded) = 2
    /\ Lt(graded[1].hpi, graded[2].hpi)
    /\ Lt(graded[1].pli, graded[2].pli)
    /\ Severity(graded[1].category) < Severity(graded[2].category)

\* The values 24.9, 25, 49.9 and 50 of hpi, and the value 0.5 of pli.
HpiSequence == <<Num(249, 1, -1), Num(25, 1, 0), Num(499, 1, -1), Num(5, 1, 1)>>

PliHalf == Num(5, 1, -1)

\* The category the classifier gave the pair of the j-th of these values
\* and 0.5, if it was called on it.
AtHalf(j, category) ==
    \A i \in 1..Len(graded) :
        (graded[i].hpi = HpiSequence[j] /\ graded[i].pli = PliHalf)
            => graded[i].category = category

\* C15 as stated: with pli = 0.5 the categories for hpi = 24.9, 25, 49.9 and
\* 50 are excellent, good, good, good.
C15_SequenceEndsGood ==
    /\ AtHalf(1, "excellent")
    /\ AtHalf(2, "good")
    /\ AtHalf(3, "good")
    /\ AtHalf(4, "good")

\* C15: with pli = 0.5 the categories for hpi = 24.9, 25, 49.9 and 50 are
\* excellent, good, good, moderate: 50 is not below the threshold 50.
C15_SequenceEndsModerate ==
    /\ AtHalf(1, "excellent")
    /\ AtHalf(2, "good")
    /\ AtHalf(3, "good")
    /\ AtHalf(4, "moderate")

\* The classifier was called on (25, 0.5) and on (50, 0.5).
C15_Witness ==
    /\ Len(graded) = 2
    /\ graded[1].hpi = HpiSequence[2] /\ graded[1].pli = PliHalf
    /\ graded[1].category = "good"
    /\ graded[2].hpi = HpiSequence[4] /\ graded[2].pli = PliHalf
    /\ graded[2].category = "moderate"

-----------------------------------------------------------------------------
(* Claims about the calculation step *)

\* The sample object carries results.
HasResults(sample) == sample.hmpiResults # NoResults

\* C16 as stated: the results of every sample are those of its metals alone,
\* whatever the index selection of the run that computed them: hpi, pli and
\* cf are calculateHPI(metals), calculatePLI(metals) and calculateCF(metals)
\* and qualityCategory is the classification of that (hpi, pli).
C16_ResultsFromMetalsAlone ==
    \A o \in 1..Len(heap) :
        HasResults(heap[o]) =>
            /\ heap[o].hmpiResults.hpi = calculateHPI(heap[o].metals)
            /\ heap[o].hmpiResults.pli = calculatePLI(heap[o].metals)
            /\ heap[o].hmpiResults.cf = calculateCF(heap[o].metals)
            /\ heap[o].hmpiResults.qualityCategory =
                 categorizeWaterQuality(calculateHPI(heap[o].metals),
                                        calculatePLI(heap[o].metals))

\* C17: the output of performCalculations has the length of its input, its
\* i-th sample has the id, latitude, longitude, sampleDate and metals of the
\* i-th input sample, and every output sample carries results.
C17_SameBatch ==
    isCalculating =>
        /\ Len(pending) = Len(samples)
        /\ \A i \in 1..Len(pending) :
             LET out == heap[pending[i]]
                 in  == heap[samples[i]]
             IN  /\ out.id = in.id
                 /\ out.latitude = in.latitude
                 /\ out.longitude = in.longitude
                 /\ out.sampleDate = in.sampleDate
                 /\ out.metals = in.metals
                 /\ HasResults(out)

\* performCalculations ran on a batch of two samples with different ids and
\* different metals.
C17_Witness ==
    /\ isCalculating
    /\ Len(samples) = 2
    /\ heap[samples[1]].id # heap[samples[2]].id
    /\ heap[samples[1]].metals # heap[samples[2]].metals
    /\ heap[pending[2]].id = heap[samples[2]].id

\* C18: performCalculations leaves every sample object that exists, with the
\* results it carries, as it is, and its output consists of new objects, also
\* on a batch whose samples already carry results.
C18_NoMutationInPlace ==
    /\ [][\A o \in 1..Len(heap) : Len(heap') >= o /\ heap'[o] = heap[o]]_vars
    /\ [](\A i \in 1..Len(pending), j \in 1..Len(samples) :
             pending[i] # samples[j])

\* A second performCalculations ran on samples that carry results, under
\* another selection: the input objects keep their results and the new
\* objects carry other ones.
C18_Witness ==
    /\ isCalculating
    /\ calcRuns = 2
    /\ \E i \in 1..Len(samples) :
         /\ HasResults(heap[samples[i]])
         /\ HasResults(heap[pending[i]])
         /\ heap[pending[i]].hmpiResults # heap[samples[i]].hmpiResults

-----------------------------------------------------------------------------
(* Claims about the aggregates *)

\* The batch ResultsVisualization was given.
Shown == [i \in 1..Len(samples) |-> heap[samples[i]]]

\* The samples of the batch that carry results, in batch order.
WithResults == SelectSeq(Shown, HasResults)

\* The arithmetic mean of the concentration of metal m over the samples
\* with results.
MeanOf(m) ==
    Div(SumOf([i \in 1..Len(WithResults) |->
                  MetalOf(WithResults[i], metals[m])]),
        Int2Num(Len(WithResults)))

\* x rounded to the nearest multiple of 0.001 as Math.round(x * 1000) / 1000
\* rounds it.
Thousandths(x) == Div(MathRound(Mul(x, Int2Num(1000))), Int2Num(1000))

\* min, max and avg are those of the values: min and max are values that
\* bound every value, and avg is their sum over their number.
SummaryOf(stat, values) ==
    /\ \E i \in 1..Len(values) : stat.min = values[i]
    /\ \E i \in 1..Len(values) : stat.max = values[i]
    /\ \A i \in 1..Len(values) :
         ~Lt(values[i], stat.min) /\ ~Gt(values[i], stat.max)
    /\ stat.avg = Div(SumOf(values), Int2Num(Len(values)))

\* C19: every aggregate is computed over exactly the samples of the batch
\* that carry results: min, max and avg of hpi and pli, the count of every
\* category, the denominator of every percentage and the mean concentration
\* of every metal are those of the samples with results, whatever samples
\* without results the batch holds.
C19_AggregatesOverProcessedOnly ==
    (rendered.done /\ Len(WithResults) > 0) =>
        LET n    == Len(WithResults)
            dist == rendered.qualityDistribution
        IN  /\ SummaryOf(rendered.statisticsData.hpi,
                         [i \in 1..n |-> WithResults[i].hmpiResults.hpi])
            /\ SummaryOf(rendered.statisticsData.pli,
                         [i \in 1..n |-> WithResults[i].hmpiResults.pli])
            /\ \A i \in 1..n :
                 Cardinality({e \in 1..Len(dist) :
                     dist[e].category =
                         Capitalized(WithResults[i].hmpiResults.qualityCategory)})
                   = 1
            /\ \A e \in 1..Len(dist) :
                 /\ dist[e].count =
                      Cardinality({i \in 1..n :
                          Capitalized(WithResults[i].hmpiResults.qualityCategory)
                              = dist[e].category})
                 /\ dist[e].count > 0
                 /\ Le(AbsNum(Sub(parseFloat(dist[e].percentage),
                                    Num(100 * dist[e].count, n, 0))),
                       Num(5, 1, -2))
            /\ \A m \in 1..Len(metals) :
                 /\ rendered.metalContributionData[m].metal = metals[m]
                 /\ rendered.metalContributionData[m].concentration
                      = Thousandths(MeanOf(m))

\* A batch of 5 samples of which 3 carry results was rendered: three
\* categories of one sample each, 33.3 percent each, and the mean hpi of the
\* three (10, 30 and 60).
C19_Witness ==
    /\ rendered.done
    /\ Len(Shown) = 5
    /\ Len(WithResults) = 3
    /\ Len(rendered.qualityDistribution) = 3
    /\ \A e \in 1..3 :
         /\ rendered.qualityDistribution[e].count = 1
         /\ rendered.qualityDistribution[e].percentage = <<"3", "3", ".", "3">>
    /\ rendered.statisticsData.hpi.avg = Num(100, 3, 0)

\* The percentage of an entry of the distribution, in tenths of a percent.
Tenths(percentage) == FixedDigits(parseFloat(percentage), 1)

\* The sum of the percentages of a distribution, in tenths of a percent.
RECURSIVE SumOfTenths(_, _)
SumOfTenths(dist, j) ==
    IF j = 0 THEN 0
    ELSE SumOfTenths(dist, j - 1) + Tenths(dist[j].percentage)

\* C20 as stated: for every non-empty batch of samples with results the
\* percentages of qualityDistribution sum to within 0.1 of 100.0, for every
\* split of the batch across the categories.
C20_SumWithinOneTenth ==
    (rendered.done /\ Len(rendered.qualityDistribution) > 0) =>
        LET sum == SumOfTenths(rendered.qualityDistribution,
                               Len(rendered.qualityDistribution))
        IN  sum \in 999..1001

\* C20: each percentage is count/total*100 rounded to one decimal, so the
\* percentages of a distribution of k entries sum to within 0.05 * k of
\* 100.0: within 0.1 for up to three categories, within 0.2 for four or five.
C20_SumWithinHalfTenthPerEntry ==
    (rendered.done /\ Len(rendered.qualityDistribution) > 0) =>
        LET k   == Len(rendered.qualityDistribution)
            sum == SumOfTenths(rendered.qualityDistribution, k)
        IN  /\ 2 * (sum - 1000) <= k
            /\ 2 * (1000 - sum) <= k

\* A batch of 14 samples with results, split 1, 1, 1, 1, 10 over the five
\* categories, was rendered: 7.1 + 7.1 + 7.1 + 7.1 + 71.4 = 99.8.
C20_Witness ==
    /\ rendered.done
    /\ Len(WithResults) = 14
    /\ Len(rendered.qualityDistribution) = 5
    /\ SumOfTenths(rendered.qualityDistribution, 5) = 998

\* The position in the samples with results of the first one whose category
\* is shown as the given one.
FirstSeen(category) ==
    CHOOSE i \in 1..Len(WithResults) :
        /\ Capitalized(WithResults[i].hmpiResults.qualityCategory) = category
        /\ \A j \in 1..(i - 1) :
             Capitalized(WithResults[j].hmpiResults.qualityCategory) # category

\* The counts of the entries of a distribution, summed.
RECURSIVE SumOfCounts(_, _)
SumOfCounts(dist, j) ==
    IF j = 0 THEN 0 ELSE SumOfCounts(dist, j - 1) + dist[j].count

\* C21: qualityDistribution has one entry per category that occurs among the
\* samples with results, in the order in which the categories are first seen
\* in the batch; the count of an entry is the number of samples with results
\* of its category, so every count is at least 1 and the counts sum to the
\* number of samples with results.
C21_FirstSeenOrder ==
    rendered.done =>
        LET n    == Len(WithResults)
            dist == rendered.qualityDistribution
            cats == {Capitalized(WithResults[i].hmpiResults.qualityCategory) :
                        i \in 1..n}
        IN  /\ {dist[e].category : e \in 1..Len(dist)} = cats
            /\ Len(dist) = Cardinality(cats)
            /\ \A e, f \in 1..Len(dist) :
                 e < f => FirstSeen(dist[e].category) < FirstSeen(dist[f].category)
            /\ \A e \in 1..Len(dist) :
                 /\ dist[e].count >= 1
                 /\ dist[e].count =
                      Cardinality({i \in 1..n :
                          Capitalized(WithResults[i].hmpiResults.qualityCategory)
                              = dist[e].category})
            /\ SumOfCounts(dist, Len(dist)) = n

\* A batch unsuitable, excellent, unsuitable was rendered: the entries are
\* Unsuitable with count 2, then Excellent with count 1.
C21_Witness ==
    /\ rendered.done
    /\ Len(WithResults) = 3
    /\ Len(rendered.qualityDistribution) = 2
    /\ rendered.qualityDistribution[1].category = "Unsuitable"
    /\ rendered.qualityDistribution[1].count = 2
    /\ rendered.qualityDistribution[2].category = "Excellent"
    /\ rendered.qualityDistribution[2].count = 1
    /\ WithResults[2].hmpiResults.qualityCategory = "excellent"

-----------------------------------------------------------------------------
(* Claims about the table *)

\* The number of entries that come before entry j of a panel when the
\* entries are listed by concentration, the highest first, and entries of
\* one concentration in the order of the panel.
RankOf(entries, j) ==
    Cardinality({i \in 1..Len(entries) :
        \/ Gt(entries[i].concentration, entries[j].concentration)
        \/ /\ Eq(entries[i].concentration, entries[j].concentration)
           /\ i < j})

\* C22: the top pollutants of a sample are its two metals of highest
\* concentration, the higher first; of metals with one concentration the one
\* that comes earlier in the panel (As, Cd, Cr, Cu, Fe, Mn, Ni, Pb, Zn) is
\* listed first and wins the cut at position 2.
C22_TopTwoStable ==
    rendered.done =>
        /\ Len(rendered.tableRows) =
             (IF Len(WithResults) < 10 THEN Len(WithResults) ELSE 10)
        /\ \A i \in 1..Len(rendered.tableRows) :
             LET entries == WithResults[i].metals
                 top     == rendered.tableRows[i].topPollutants
             IN  /\ rendered.tableRows[i].id = WithResults[i].id
                 /\ Len(top) = 2
                 /\ \A r \in 1..2 :
                      \E j \in 1..Len(entries) :
                         /\ RankOf(entries, j) = r - 1
                         /\ top[r] = entries[j].metal

\* The row of a sample with As, Cr and Cu at 1 and every other metal at 0
\* was rendered: As and Cr are listed, Cu loses the cut.
C22_Witness ==
    /\ rendered.done
    /\ Len(WithResults) = 1
    /\ \A j \in 1..Len(metals) :
         WithResults[1].metals[j].concentration =
             (IF j \in {1, 3, 4} THEN Num(1, 1, 0) ELSE Zero)
    /\ rendered.tableRows[1].topPollutants = <<"As", "Cr">>

-----------------------------------------------------------------------------
(* Claims about the mean concentrations *)

\* C23 as stated: for each of the 9 metals the mean-concentration aggregate
\* equals the arithmetic mean of the metal's concentration over the samples
\* with results, for every batch that has one.
C23_MeanExact ==
    (rendered.done /\ Len(WithResults) > 0) =>
        \A m \in 1..Len(metals) :
            rendered.metalContributionData[m].concentration = MeanOf(m)

\* The whole numbers next to x: floor(x) - 2 .. floor(x) + 2.
WholeNear(x) == {Add(MathFloor(x), Int2Num(d)) : d \in -2..2}

\* C23: for each of the 9 metals, in the order As..Zn, the aggregate is
\* Math.round(mean * 1000) / 1000 of the arithmetic mean of the metal's
\* concentration over the samples with results, in double arithmetic.  With
\* e the double mean * 1000: when e is below 2^52 the aggregate is w / 1000
\* for the whole number w with e - 0.5 < w <= e + 0.5 (the mean rounded to
\* the nearest multiple of 0.001, upwards on a tie); when e is finite and
\* 2^52 or more, where every double is whole, it is e / 1000; and when e is
\* Infinity, as for a mean of 5.7 * 10^305, whose product with 1000 is
\* beyond the largest double, it is Infinity.
C23_MeanRoundedToThousandths ==
    (rendered.done /\ Len(WithResults) > 0) =>
        /\ Len(rendered.metalContributionData) = Len(metals)
        /\ \A m \in 1..Len(metals) :
             LET entry == rendered.metalContributionData[m]
                 e     == Mul(MeanOf(m), Int2Num(1000))
             IN  /\ entry.metal = metals[m]
                 /\ IF e.k # "fin" THEN entry.concentration = PosInfinity
                    ELSE IF ~IsZero(e) /\ e.q >= 0
                    THEN entry.concentration = Div(e, Int2Num(1000))
                    ELSE \E w \in WholeNear(Mul(entry.concentration,
                                                 Int2Num(1000))) :
                            /\ entry.concentration = Div(w, Int2Num(1000))
                            /\ Lt(Sub(e, w), Num(5, 1, -1))
                            /\ Le(Sub(w, e), Num(5, 1, -1))

\* A batch of two samples with results, Cd at 0.0003 and at 0.0018, was
\* rendered: the mean is 0.00105 and the aggregate is 0.001.
C23_Witness ==
    /\ rendered.done
    /\ Len(WithResults) = 2
    /\ MeanOf(2) = Num(105, 1, -5)
    /\ rendered.metalContributionData[2].concentration = Num(1, 1, -3)

-----------------------------------------------------------------------------
(* Claims about the summary statistics *)

\* The hpi and the pli of the samples with results.
HpiValues == [i \in 1..Len(WithResults) |-> WithResults[i].hmpiResults.hpi]

PliValues == [i \in 1..Len(WithResults) |-> WithResults[i].hmpiResults.pli]

HasNaN(values) == \E i \in 1..Len(values) : IsNaN(values[i])

\* min and max are values of some sample and bound every value, and avg is
\* the sum of the values over their number.
Attained(stat, values) ==
    /\ \E i \in 1..Len(values) : stat.min = values[i]
    /\ \E i \in 1..Len(values) : stat.max = values[i]
    /\ \A i \in 1..Len(values) : Le(stat.min, values[i]) /\ Le(values[i], stat.max)
    /\ stat.avg = Div(SumOf(values), Int2Num(Len(values)))

\* The view shows no statistics for a batch without a sample with results.
GuardsEmpty ==
    (Len(WithResults) = 0) <=>
        rendered.view = "No calculation results available"

\* C24 as stated, on the batches in which no hpi and no pli is NaN: the
\* statistics of every batch with a sample with results have min and max
\* attained by a sample, avg the sum over the count, and min <= avg <= max;
\* the view shows no statistics for a batch without such a sample.
C24_MinAvgMax ==
    (rendered.done /\ ~HasNaN(HpiValues) /\ ~HasNaN(PliValues)) =>
        /\ GuardsEmpty
        /\ Len(WithResults) > 0 =>
             /\ Attained(rendered.statisticsData.hpi, HpiValues)
             /\ Attained(rendered.statisticsData.pli, PliValues)
             /\ Le(rendered.statisticsData.hpi.min, rendered.statisticsData.hpi.avg)
             /\ Le(rendered.statisticsData.hpi.avg, rendered.statisticsData.hpi.max)
             /\ Le(rendered.statisticsData.pli.min, rendered.statisticsData.pli.avg)
             /\ Le(rendered.statisticsData.pli.avg, rendered.statisticsData.pli.max)

\* x <= y, or x is above y by at most 2^-48 of y: what the rounding of a sum
\* of up to 32 values and of its quotient can make of x <= y.
NearlyLe(x, y) ==
    Le(x, y) \/ Le(Sub(x, y), Mul(AbsNum(y), MeanTolerance))

\* The statistics of the values of a batch with a sample with results: all
\* NaN when a value is NaN; otherwise min and max attained, avg the sum over
\* the count, and min <= avg <= max up to the rounding of the sum, unless
\* the sum of the values is beyond the largest double, where avg is
\* Infinity.
SummaryHolds(stat, values) ==
    IF HasNaN(values)
    THEN IsNaN(stat.min) /\ IsNaN(stat.max) /\ IsNaN(stat.avg)
    ELSE /\ Attained(stat, values)
         /\ NearlyLe(stat.min, stat.avg)
         /\ \/ NearlyLe(stat.avg, stat.max)
            \/ stat.avg = PosInfinity /\ SumOf(values) = PosInfinity

\* C24: for a batch with a sample with results min and max of hpi (and of
\* pli) are values of samples with results that bound every value and avg is
\* the sum of the values, added in batch order, over their number.  Then
\* min <= avg <= max holds up to rounding only (three samples of pli
\* 0.9000000000000001 have avg 0.9), avg is Infinity when the sum is beyond
\* the largest double, and all three are NaN when a value is NaN.  For a
\* batch without such a sample min is Infinity, max is -Infinity and avg is
\* NaN, and the view shows no statistics.
C24_SummaryStatistics ==
    rendered.done =>
        /\ GuardsEmpty
        /\ IF Len(WithResults) > 0
           THEN /\ SummaryHolds(rendered.statisticsData.hpi, HpiValues)
                /\ SummaryHolds(rendered.statisticsData.pli, PliValues)
           ELSE \A metric \in {"hpi", "pli"} :
                   /\ rendered.statisticsData[metric].min = PosInfinity
                   /\ rendered.statisticsData[metric].max = NegInfinity
                   /\ IsNaN(rendered.statisticsData[metric].avg)

\* A batch of three samples with results of one pli was rendered whose avg
\* is below that pli: min and max are the pli, 0.9000000000000001, and avg
\* is 0.9.
C24_Witness ==
    /\ rendered.done
    /\ Len(WithResults) = 3
    /\ \A i \in 1..3 : PliValues[i] = rendered.statisticsData.pli.min
    /\ rendered.statisticsData.pli.max = rendered.statisticsData.pli.min
    /\ Lt(rendered.statisticsData.pli.avg, rendered.statisticsData.pli.min)
    /\ rendered.statisticsData.pli.avg = Num(9, 1, -1)

-----------------------------------------------------------------------------
(* Claims about the Dashboard *)

\* The upload the samples of a batch came with (0 for no sample).
UploadOf(batch) == IF Len(batch) = 0 THEN 0 ELSE origin[batch[1]]

\* C25: the validity of an upload is true exactly when it has no diagnostic,
\* and the samples of an upload with a diagnostic are never in the preview
\* and never handed to the Dashboard (as its samples or as the results of a
\* calculation on them), even when rows of the upload passed.
C25_DiagnosticsRejectUpload ==
    /\ \A k \in 1..Len(verdicts) :
         verdicts[k].isValid <=> (Len(verdicts[k].errors) = 0)
    /\ \A i \in 1..Len(previewData) : verdicts[origin[previewData[i]]].isValid
    /\ \A i \in 1..Len(samples) : verdicts[origin[samples[i]]].isValid
    /\ \A c \in 1..Len(inflight) : \A i \in 1..Len(inflight[c]) :
         verdicts[origin[inflight[c][i]]].isValid

\* An upload of which a row passed and a row did not was processed: its
\* sample is created, its diagnostics are shown and nothing is previewed.
C25_Witness ==
    /\ Len(verdicts) > 0
    /\ ~verdicts[Len(verdicts)].isValid
    /\ Len(verdicts[Len(verdicts)].samples) > 0
    /\ errors = verdicts[Len(verdicts)].errors
    /\ Len(previewData) = 0
    /\ activeTab = "upload"

\* C26: once an upload has been processed the preview, which Confirm hands
\* to the Dashboard, holds no sample of an earlier upload, and a preview is
\* never shown together with diagnostics.
C26_FreshUploadDiscardsPreview ==
    /\ \A i \in 1..Len(previewData) : origin[previewData[i]] = Len(verdicts)
    /\ ~(Len(previewData) > 0 /\ Len(errors) > 0)

\* C27: once the samples of a later upload are the Dashboard's samples, no
\* step makes the samples of an earlier upload its samples again, and the
\* Dashboard's samples never mix two uploads.
C27_NeverRevertsToEarlierBatch ==
    /\ [][UploadOf(samples') >= UploadOf(samples)]_vars
    /\ [](\A i \in 1..Len(samples) : origin[samples[i]] = UploadOf(samples))

\* Whether a sample of the Dashboard carries results.
Carries(o) == heap[o].hmpiResults # NoResults

\* C28: the Results or the Geospatial tab is active only if a sample of the
\* Dashboard carries results, and the Calculate tab only if the Dashboard has
\* a sample; a confirmation replaces the samples with samples without results
\* and moves to Calculate, and a completion replaces them with samples that
\* all carry results and moves to Results (and no other step changes the
\* samples).
C28_WorkflowInvariant ==
    /\ [](activeTab \in {"results", "map"} =>
              \E i \in 1..Len(samples) : Carries(samples[i]))
    /\ [](activeTab = "calculate" => Len(samples) > 0)
    /\ [][HandleConfirmUpload =>
            /\ samples' = previewData
            /\ Len(samples') > 0
            /\ \A i \in 1..Len(samples') : heap'[samples'[i]].hmpiResults = NoResults
            /\ activeTab' = "calculate"]_vars
    /\ [][FinishCalculations =>
            /\ samples' = inflight[1]
            /\ Len(samples') > 0
            /\ \A i \in 1..Len(samples') : heap'[samples'[i]].hmpiResults # NoResults
            /\ activeTab' = "results"]_vars
    /\ [][samples' # samples =>
            \/ /\ activeTab' = "calculate"
               /\ \A i \in 1..Len(samples') :
                    heap'[samples'[i]].hmpiResults = NoResults
            \/ /\ activeTab' = "results"
               /\ \A i \in 1..Len(samples') :
                    heap'[samples'[i]].hmpiResults # NoResults]_vars

\* The results of a second upload are shown: two uploads were confirmed and
\* calculated, and the Dashboard is on the Geospatial tab.
C28_Witness ==
    /\ activeTab = "map"
    /\ Len(samples) > 0
    /\ \A i \in 1..Len(samples) : Carries(samples[i])
    /\ UploadOf(samples) = 2
    /\ Len(inflight) = 0

=============================================================================
